---- MODULE Spec2Model ----
(***************************************************************************)
(* A model of the kairon bot-data repository (MongoProcessor and the       *)
(* document schema it writes) and of the WhatsApp webhook channel.         *)
(*                                                                         *)
(* Python strings that the code slices or inspects (example text, names)   *)
(* are sequences of symbols: Len, slicing and blank-ness are those of the  *)
(* string, one symbol standing for one character.  Bots, collection names  *)
(* and error messages are atomic.                                          *)
(***************************************************************************)
EXTENDS Integers, Sequences, FiniteSets, TLC

VARIABLES
    db,      \* the document store: collection name -> sequence of documents (the index is the id)
    last,    \* the last repository call: its name, arguments and outcome
    nops,    \* the number of repository calls made so far
    removed, \* history: the <<collection, id>> on which remove_document succeeded
    removals, \* history: the number of remove_document calls that succeeded
    saved,   \* history, per bot: the training data saved into it while it had none
    calls,   \* per concurrent caller: the add_* call it is in and the statement it is at
    candidate, \* a document as constructed, before it is saved
    verdict, \* what the validate of its class said of it ("none" until it is called)
    reqs,    \* per webhook request: its bot, channel configuration, payload and signature
    tasks,   \* per webhook request: the callback handle_payload spawned for it
    channels, \* the Whatsapp channel objects, named by the request they were made for
    log,     \* per webhook request: what was observed of it, in order
    sent     \* what the output channel handed to the client's send, in order

repoVars == <<db, last, nops, removed, removals, saved, calls>>
validateVars == <<candidate, verdict>>
chanVars == <<reqs, tasks, channels, log, sent>>
vars == <<db, last, nops, removed, removals, saved, calls, candidate, verdict, reqs, tasks, channels, log, sent>>

\* The number of repository calls one run makes: of any kind, and of the
\* kinds one family of claims is about.
MaxRepoOps == 3
MaxOps == 4

Bots == {"b1", "b2"}

Collections ==
    {"TrainingExamples", "EntitySynonyms", "LookupTables", "RegexFeatures",
     "Intents", "Entities", "Forms", "Actions", "Responses", "Slots",
     "Stories", "SessionConfigs", "Configs"}

\* SessionConfigs declares no status field; every other document class does.
HasStatus(coll) == coll # "SessionConfigs"

OK == "ok"

(***************************************************************************)
(* Strings as sequences of symbols.                                        *)
(***************************************************************************)
Str(s) == <<s>>

Whitespace == {" "}

\* Utility.check_empty_string: empty, or nothing but white space.
check_empty_string(value) == \A i \in DOMAIN value : value[i] \in Whitespace

Min(a, b) == IF a < b THEN a ELSE b
Max(a, b) == IF a > b THEN a ELSE b

\* A slice bound as Python resolves it: negative counts from the end, then clamped.
SliceIndex(i, n) == IF i < 0 THEN Max(i + n, 0) ELSE Min(i, n)

\* text[start:end]
Slice(text, start, end) ==
    LET lo == SliceIndex(start, Len(text))
        hi == SliceIndex(end, Len(text))
    IN  IF lo >= hi THEN <<>> ELSE SubSeq(text, lo + 1, hi)

RECURSIVE SeqSum(_)
SeqSum(s) == IF s = <<>> THEN 0 ELSE Head(s) + SeqSum(Tail(s))

\* [f(x) for x in s]
Map(F(_), s) == [i \in DOMAIN s |-> F(s[i])]

\* The indices of s, in order, whose element satisfies P.
RECURSIVE IdsFrom(_, _, _)
IdsFrom(P(_), s, i) ==
    IF i > Len(s) THEN <<>>
    ELSE (IF P(s[i]) THEN <<i>> ELSE <<>>) \o IdsFrom(P, s, i + 1)

Range(s) == {s[i] : i \in DOMAIN s}

(***************************************************************************)
(* Documents.  user and timestamp are carried by every document and read   *)
(* by no operation; they are left out.  status defaults to TRUE.           *)
(***************************************************************************)
NameDoc(name, bot) == [name |-> name, bot |-> bot, status |-> TRUE]

Intents(name, bot) == NameDoc(name, bot)

\* Intents.validate
IntentsValidate(doc) ==
    IF check_empty_string(doc.name)
    THEN "Intent Name cannot be empty or blank spaces"
    ELSE OK

Entities(name, bot) == NameDoc(name, bot)

Forms(name, bot) == NameDoc(name, bot)

Actions(name, bot) == NameDoc(name, bot)

\* Entities.validate
EntitiesValidate(doc) ==
    IF check_empty_string(doc.name)
    THEN "Entity Name cannot be empty or blank spaces"
    ELSE OK

\* Actions.validate
ActionsValidate(doc) ==
    IF check_empty_string(doc.name)
    THEN "Action name cannot be empty or blank spaces"
    ELSE OK

\* An optional field is a sequence: <<>> when unset, <<v>> when set to v.
Unset == <<>>
Some(v) == <<v>>

\* Responses: name with the optional text and custom variants.
Responses(name, text, custom, bot) ==
    [name |-> name, text |-> text, custom |-> custom, bot |-> bot, status |-> TRUE]

\* Slots; the fields a constructor call omits are unset, auto_fill defaults to TRUE.
Slots(name, type, bot) ==
    [name |-> name, type |-> type, initial_value |-> Unset, value_reset_delay |-> Unset,
     auto_fill |-> TRUE, values |-> <<>>, min_value |-> Unset, max_value |-> Unset,
     bot |-> bot, status |-> TRUE]

\* Stories
Stories(block_name, events, bot) ==
    [block_name |-> block_name, events |-> events, bot |-> bot, status |-> TRUE]

\* StoryEvents
StoryEvents(type, name) == [type |-> type, name |-> name]

\* Entity (embedded in a training example)
Entity(start, end, value, entity) ==
    [start |-> start, end |-> end, value |-> value, entity |-> entity]

\* TrainingExamples; entities defaults to the empty list.
TrainingExamples(intent, text, entities, bot) ==
    [intent |-> intent, text |-> text, entities |-> entities, bot |-> bot, status |-> TRUE]

\* EntitySynonyms
EntitySynonyms(synonym, value, bot) ==
    [synonym |-> synonym, value |-> value, bot |-> bot, status |-> TRUE]

\* LookupTables
LookupTables(name, value, bot) ==
    [name |-> name, value |-> value, bot |-> bot, status |-> TRUE]

\* RegexFeatures
RegexFeatures(name, pattern, bot) ==
    [name |-> name, pattern |-> pattern, bot |-> bot, status |-> TRUE]

(***************************************************************************)
(* Queries.                                                                *)
(***************************************************************************)
\* document.objects(bot=bot) on store d: the ids of the bot's documents, in
\* stored order, whatever their status.
ObjectsOfBot(d, coll, bot) ==
    LET P(x) == x.bot = bot IN IdsFrom(P, d[coll], 1)

\* As Objects, the status not looked at.
ObjectsAnyStatus(d, coll, bot, status) == ObjectsOfBot(d, coll, bot)

\* document.objects(bot=bot, status=status)
Objects(d, coll, bot, status) ==
    LET P(x) == x.bot = bot /\ x.status = status IN IdsFrom(P, d[coll], 1)

\* A query that looks at the field only, in the records of every bot.
IsExistAnyBot(d, coll, bot, field, value) ==
    \E i \in DOMAIN d[coll] : d[coll][i][field] = value

\* __isExist's query: document.objects(bot=bot, __raw__={field: value}),
\* which does not look at status.
IsExist(d, coll, bot, field, value) ==
    \E i \in DOMAIN d[coll] : d[coll][i].bot = bot /\ d[coll][i][field] = value

\* A list of the bot's active documents only.
DocumentListActive(d, coll, bot, field) ==
    LET P(x) == x.bot = bot /\ x.status
        ids == IdsFrom(P, d[coll], 1)
    IN  [k \in DOMAIN ids |-> [_id |-> ids[k], value |-> d[coll][ids[k]][field]]]

\* __prepare_document_list over document.objects(bot=bot)
DocumentList(d, coll, bot, field) ==
    LET ids == ObjectsOfBot(d, coll, bot)
    IN  [k \in DOMAIN ids |-> [_id |-> ids[k], value |-> d[coll][ids[k]][field]]]

\* MongoProcessor.get_intents
GetIntents(d, bot) == DocumentList(d, "Intents", bot, "name")

get_intents(bot) == GetIntents(db, bot)

(***************************************************************************)
(* Calls.  Each action is one call of a MongoProcessor method, start to    *)
(* end; last records it.                                                   *)
(***************************************************************************)
Call(op, bot, arg, err) == [op |-> op, bot |-> bot, arg |-> arg, err |-> err]

NluCollections == {"TrainingExamples", "EntitySynonyms", "LookupTables", "RegexFeatures"}

\* The number of the bot's documents in a collection of store d.
DocCount(d, coll, bot) == Cardinality({i \in DOMAIN d[coll] : d[coll][i].bot = bot})

\* The history of a bot's training data: none written yet, one save_nlu into
\* the empty bot (and which), or more writes than that.
NoNlu == [state |-> "none"]
SavedNlu(nlu) == [state |-> "saved", nlu |-> nlu]
MixedNlu == [state |-> "mixed"]

\* The call is recorded with its outcome (db' is the store it leaves).
Returns(op, bot, arg, err) ==
    /\ nops' = nops + 1
    /\ last' = Call(op, bot, arg, err)
    /\ removed' = IF op = "remove_document" /\ err = OK THEN removed \cup {arg} ELSE removed
    /\ removals' = IF op = "remove_document" /\ err = OK THEN removals + 1 ELSE removals
    /\ saved' = [b \in Bots |->
                    IF /\ op = "save_nlu" /\ b = bot /\ err = OK
                       /\ \A c \in NluCollections : DocCount(db, c, b) = 0
                    THEN SavedNlu(arg)
                    ELSE IF \E c \in NluCollections : DocCount(db', c, b) # DocCount(db, c, b)
                    THEN MixedNlu
                    ELSE saved[b]]
    /\ UNCHANGED <<calls, validateVars, chanVars>>

Append1(coll, doc) == [db EXCEPT ![coll] = Append(@, doc)]

\* As AddIntentErr, without the existence check.
AddIntentErrNoCheck(text, bot) == IntentsValidate(Intents(text, bot))

\* MongoProcessor.add_intent
AddIntentErr(text, bot) ==
    IF IsExist(db, "Intents", bot, "name", text) THEN "Intent already exist!"
    ELSE IntentsValidate(Intents(text, bot))

add_intent(text, bot) ==
    /\ db' = IF AddIntentErr(text, bot) = OK
             THEN Append1("Intents", Intents(text, bot))
             ELSE db
    /\ Returns("add_intent", bot, text, AddIntentErr(text, bot))

(***************************************************************************)
(* Training data (NLU): save_nlu and load_nlu.                             *)
(*                                                                         *)
(* A TrainingData object is [training_examples, entity_synonyms,           *)
(* lookup_tables, regex_features]: a sequence of messages ([text, intent]  *)
(* with an optional entities key), the synonym dict as its items in        *)
(* iteration order (<<key, value>>, the keys distinct), a sequence of      *)
(* [name, elements] and a sequence of [name, pattern].                     *)
(***************************************************************************)
\* QuerySet.insert(docs) that returns: the batch is stored, in its order.
Insert(d, coll, docs) == [d EXCEPT ![coll] = @ \o docs]

\* __extract_entities
ExtractEntities(entities) ==
    [i \in DOMAIN entities |->
        Entity(entities[i].start, entities[i].end, entities[i].value, entities[i].entity)]

\* __extract_training_examples
ExtractTrainingExamples(training_examples, bot) ==
    [i \in DOMAIN training_examples |->
        TrainingExamples(training_examples[i].intent, training_examples[i].text,
                         IF "entities" \in DOMAIN training_examples[i]
                         THEN ExtractEntities(training_examples[i].entities)
                         ELSE <<>>,
                         bot)]

\* __extract_synonyms: the dict's key is stored as value, its value as synonym.
ExtractSynonyms(synonyms, bot) ==
    [i \in DOMAIN synonyms |-> EntitySynonyms(synonyms[i][2], synonyms[i][1], bot)]

\* As ExtractLookupTables, one row per table (its first element).
ExtractLookupTablesFirstOnly(lookup_tables, bot) ==
    [i \in DOMAIN lookup_tables |->
        LookupTables(lookup_tables[i].name, Head(lookup_tables[i].elements), bot)]

\* __extract_lookup_tables: one row per element.
RECURSIVE ExtractLookupTables(_, _)
ExtractLookupTables(lookup_tables, bot) ==
    IF lookup_tables = <<>> THEN <<>>
    ELSE LET t == Head(lookup_tables)
         IN  [i \in DOMAIN t.elements |-> LookupTables(t.name, t.elements[i], bot)]
             \o ExtractLookupTables(Tail(lookup_tables), bot)

\* __extract_regex_features
ExtractRegexFeatures(regex_features, bot) ==
    [i \in DOMAIN regex_features |->
        RegexFeatures(regex_features[i].name, regex_features[i].pattern, bot)]

\* The batches save_nlu inserts, in its order; an empty batch is not inserted.
NluBatches(nlu, bot) ==
    << <<"TrainingExamples", ExtractTrainingExamples(nlu.training_examples, bot)>>,
       <<"EntitySynonyms", ExtractSynonyms(nlu.entity_synonyms, bot)>>,
       <<"LookupTables", ExtractLookupTables(nlu.lookup_tables, bot)>>,
       <<"RegexFeatures", ExtractRegexFeatures(nlu.regex_features, bot)>> >>

\* How the store fails a call: the insert of the batch-th batch raises, when
\* it is attempted, after kept documents of the batch were written
\* (insert_many writes in order and is no transaction; the error can also
\* come after the last write).  No batch is the 0th.
Failure(batch, kept) == [batch |-> batch, kept |-> kept]

NoFailure == Failure(0, 0)

\* The store after the batches k.. are inserted one after another; the
\* insert that fails ends the call.
RECURSIVE InsertBatches(_, _, _, _)
InsertBatches(d, batches, k, fail) ==
    IF k > Len(batches) THEN [store |-> d, err |-> OK]
    ELSE IF batches[k][2] = <<>> THEN InsertBatches(d, batches, k + 1, fail)
    ELSE IF k = fail.batch
    THEN [store |-> Insert(d, batches[k][1],
                           SubSeq(batches[k][2], 1, Min(fail.kept, Len(batches[k][2])))),
          err |-> "StorageError"]
    ELSE InsertBatches(Insert(d, batches[k][1], batches[k][2]), batches, k + 1, fail)

\* MongoProcessor.save_nlu
SaveNlu(nlu, bot, fail) == InsertBatches(db, NluBatches(nlu, bot), 1, fail)

save_nlu(nlu, bot, fail) ==
    /\ db' = SaveNlu(nlu, bot, fail).store
    /\ Returns("save_nlu", bot, nlu, SaveNlu(nlu, bot, fail).err)

\* fetch_training_examples: a message per active example, its entities key
\* present when the example has entities.
FetchTrainingExamples(d, bot, status) ==
    LET ids == Objects(d, "TrainingExamples", bot, status)
    IN  [k \in DOMAIN ids |->
            LET e == d.TrainingExamples[ids[k]]
            IN  IF e.entities # <<>>
                THEN [text |-> e.text, intent |-> e.intent, entities |-> e.entities]
                ELSE [text |-> e.text, intent |-> e.intent]]

\* fetch_synonyms and __prepare_training_synonyms: dict(ChainMap(*rows)), in
\* which the first row that has a key decides its value.
PrepareTrainingSynonyms(d, bot) ==
    LET ids == Objects(d, "EntitySynonyms", bot, TRUE)
        rows == [k \in DOMAIN ids |-> d.EntitySynonyms[ids[k]]]
        First(key) == CHOOSE k \in DOMAIN rows :
                          /\ rows[k].value = key
                          /\ \A j \in 1..(k - 1) : rows[j].value # key
    IN  [key \in {rows[k].value : k \in DOMAIN rows} |-> rows[First(key)].synonym]

\* fetch_lookup_tables: $group by name, $push of the values.  The groups are
\* listed by first occurrence (the aggregation promises no order).
RECURSIVE GroupNames(_, _)
GroupNames(rows, seen) ==
    IF rows = <<>> THEN <<>>
    ELSE IF Head(rows).name \in seen THEN GroupNames(Tail(rows), seen)
    ELSE <<Head(rows).name>> \o GroupNames(Tail(rows), seen \cup {Head(rows).name})

FetchLookupTables(d, bot, status) ==
    LET ids == Objects(d, "LookupTables", bot, status)
        rows == [k \in DOMAIN ids |-> d.LookupTables[ids[k]]]
        names == GroupNames(rows, {})
        OfName(n) == LET P(r) == r.name = n
                         at == IdsFrom(P, rows, 1)
                     IN  [j \in DOMAIN at |-> rows[at[j]].value]
    IN  [g \in DOMAIN names |-> [name |-> names[g], elements |-> OfName(names[g])]]

\* fetch_regex_features: the pattern is returned under the key elements.
FetchRegexFeatures(d, bot, status) ==
    LET ids == Objects(d, "RegexFeatures", bot, status)
    IN  [k \in DOMAIN ids |->
            [name |-> d.RegexFeatures[ids[k]].name,
             elements |-> d.RegexFeatures[ids[k]].pattern]]

\* MongoProcessor.load_nlu
LoadNlu(d, bot) ==
    [training_examples |-> FetchTrainingExamples(d, bot, TRUE),
     entity_synonyms |-> PrepareTrainingSynonyms(d, bot),
     lookup_tables |-> FetchLookupTables(d, bot, TRUE),
     regex_features |-> FetchRegexFeatures(d, bot, TRUE)]

load_nlu(bot) == LoadNlu(db, bot)

(***************************************************************************)
(* Domain: save_domain and load_domain.                                    *)
(*                                                                         *)
(* A Domain object is [intents, entities, form_names, user_actions,        *)
(* templates, slots]: sequences of names, the templates dict as its items  *)
(* (<<name, values>>, each value a record with some of the keys text,      *)
(* custom, image, channel, button, buttons) and a sequence of slot         *)
(* objects.                                                                *)
(***************************************************************************)
\* The names a $group by bot with $push of name returns for the bot's
\* documents of the given status (fetch_intents, fetch_domain_entities,
\* fetch_forms, fetch_actions), as __prepare_training_* unwraps them.
PushedNames(d, coll, bot, status) ==
    LET ids == Objects(d, coll, bot, status) IN [k \in DOMAIN ids |-> d[coll][ids[k]].name]

PrepareTrainingIntents(d, bot) == PushedNames(d, "Intents", bot, TRUE)

PrepareTrainingDomainEntities(d, bot) == PushedNames(d, "Entities", bot, TRUE)

PrepareTrainingForms(d, bot) == PushedNames(d, "Forms", bot, TRUE)

PrepareTrainingActions(d, bot) == PushedNames(d, "Actions", bot, TRUE)

\* __save_intents: every intent of the domain is inserted.
SaveIntents(d, intents, bot) ==
    IF intents = <<>> THEN d
    ELSE Insert(d, "Intents", [i \in DOMAIN intents |-> Intents(intents[i], bot)])

\* __save_domain_entities: the entities whose name is not among the bot's
\* active entities (read once, before the insert) are inserted.
NewEntities(d, entities, bot) ==
    LET P(e) == e \notin Range(PrepareTrainingDomainEntities(d, bot))
        ids == IdsFrom(P, entities, 1)
    IN  [k \in DOMAIN ids |-> Entities(entities[ids[k]], bot)]

SaveDomainEntities(d, entities, bot) ==
    IF entities = <<>> \/ NewEntities(d, entities, bot) = <<>> THEN d
    ELSE Insert(d, "Entities", NewEntities(d, entities, bot))

\* __save_forms
SaveForms(d, forms, bot) ==
    IF forms = <<>> THEN d
    ELSE Insert(d, "Forms", [i \in DOMAIN forms |-> Forms(forms[i], bot)])

\* __save_actions
SaveActions(d, actions, bot) ==
    IF actions = <<>> THEN d
    ELSE Insert(d, "Actions", [i \in DOMAIN actions |-> Actions(actions[i], bot)])

\* __extract_response_value, for one value: a text variant when the value has
\* a text key, else a custom variant when it has a custom key, else neither.
\* The buttons are read from value['buttons'] when the key 'button' is there.
ResponseRaises(value) ==
    "text" \in DOMAIN value /\ "button" \in DOMAIN value /\ "buttons" \notin DOMAIN value

ResponseText(value) ==
    [text |-> value.text,
     image |-> IF "image" \in DOMAIN value THEN Some(value.image) ELSE Unset,
     channel |-> IF "channel" \in DOMAIN value THEN Some(value.channel) ELSE Unset,
     buttons |-> IF "button" \in DOMAIN value THEN value.buttons ELSE <<>>]

ExtractResponseValue(value, key, bot) ==
    IF "text" \in DOMAIN value
    THEN Responses(key, Some(ResponseText(value)), Unset, bot)
    ELSE IF "custom" \in DOMAIN value
    THEN Responses(key, Unset, Some([blocks |-> value.custom]), bot)
    ELSE Responses(key, Unset, Unset, bot)

\* __extract_response
RECURSIVE ExtractResponse(_, _)
ExtractResponse(responses, bot) ==
    IF responses = <<>> THEN <<>>
    ELSE LET key == Head(responses)[1]
             values == Head(responses)[2]
         IN  [i \in DOMAIN values |-> ExtractResponseValue(values[i], key, bot)]
             \o ExtractResponse(Tail(responses), bot)

ResponsesRaise(responses) ==
    \E k \in DOMAIN responses : \E i \in DOMAIN responses[k][2] :
        ResponseRaises(responses[k][2][i])

\* __save_responses
SaveResponses(d, responses, bot) ==
    IF responses = <<>> THEN d
    ELSE Insert(d, "Responses", ExtractResponse(responses, bot))

\* __fetch_slot_names: the names of the bot's slots, whatever their status.
FetchSlotNames(d, bot) ==
    {d.Slots[i].name : i \in {j \in DOMAIN d.Slots : d.Slots[j].bot = bot}}

\* __extract_slots: a slot whose name the bot has no slot of yet becomes a document.
SlotDoc(slot, bot) ==
    [name |-> slot.name, type |-> slot.type_name, initial_value |-> slot.initial_value,
     value_reset_delay |-> slot.value_reset_delay, auto_fill |-> slot.auto_fill,
     values |-> slot.values, min_value |-> slot.min_value, max_value |-> slot.max_value,
     bot |-> bot, status |-> TRUE]

ExtractSlots(d, slots, bot) ==
    LET P(x) == x.name \notin FetchSlotNames(d, bot)
        ids == IdsFrom(P, slots, 1)
    IN  [k \in DOMAIN ids |-> SlotDoc(slots[ids[k]], bot)]

\* __save_slots
SaveSlots(d, slots, bot) ==
    IF slots = <<>> \/ ExtractSlots(d, slots, bot) = <<>> THEN d
    ELSE Insert(d, "Slots", ExtractSlots(d, slots, bot))

\* MongoProcessor.save_domain: intents, entities, forms, actions, responses,
\* slots, in this order; a response value that cannot be read ends the call
\* with what was inserted before it.
SaveDomainUpToActionsIn(d, domain, bot) ==
    SaveActions(
        SaveForms(
            SaveDomainEntities(SaveIntents(d, domain.intents, bot), domain.entities, bot),
            domain.form_names, bot),
        domain.user_actions, bot)

SaveDomainUpToActions(domain, bot) == SaveDomainUpToActionsIn(db, domain, bot)

SaveDomainIn(d, domain, bot) ==
    IF domain.templates # <<>> /\ ResponsesRaise(domain.templates)
    THEN [store |-> SaveDomainUpToActionsIn(d, domain, bot), err |-> "KeyError"]
    ELSE [store |-> SaveSlots(
                        SaveResponses(SaveDomainUpToActionsIn(d, domain, bot),
                                      domain.templates, bot),
                        domain.slots, bot),
          err |-> OK]

SaveDomain(domain, bot) == SaveDomainIn(db, domain, bot)

save_domain(domain, bot) ==
    /\ db' = SaveDomain(domain, bot).store
    /\ Returns("save_domain", bot, domain, SaveDomain(domain, bot).err)

\* fetch_responses and __prepare_training_responses: $group by name with
\* $push of text and of custom (an unset field pushes nothing); the name maps
\* to the texts followed by the customs.
PrepareTrainingResponses(d, bot) ==
    LET ids == Objects(d, "Responses", bot, TRUE)
        rows == [k \in DOMAIN ids |-> d.Responses[ids[k]]]
        OfName(n) ==
            LET T(r) == r.name = n /\ r.text # Unset
                C(r) == r.name = n /\ r.custom # Unset
                ts == IdsFrom(T, rows, 1)
                cs == IdsFrom(C, rows, 1)
            IN  [j \in DOMAIN ts |-> rows[ts[j]].text[1]]
                \o [j \in DOMAIN cs |-> rows[cs[j]].custom[1]]
    IN  [n \in {rows[k].name : k \in DOMAIN rows} |-> OfName(n)]

SlotTypes == {"float", "categorical", "text", "bool", "list", "unfeaturized"}

\* fetch_slots and __prepare_training_slots: a slot object per active slot of
\* a known type.
PrepareTrainingSlots(d, bot) ==
    LET all == Objects(d, "Slots", bot, TRUE)
        P(i) == d.Slots[i].type \in SlotTypes
        at == IdsFrom(P, all, 1)
    IN  [k \in DOMAIN at |->
            LET x == d.Slots[all[at[k]]]
                base == [name |-> x.name, type_name |-> x.type,
                         initial_value |-> x.initial_value,
                         value_reset_delay |-> x.value_reset_delay,
                         auto_fill |-> x.auto_fill]
            IN  IF x.type = "float"
                THEN base @@ [min_value |-> x.min_value, max_value |-> x.max_value]
                ELSE IF x.type = "categorical"
                THEN base @@ [values |-> x.values]
                ELSE base]

\* SessionConfig.default() of the dialogue engine
DefaultSessionExpirationTime == 60
DefaultCarryOverSlots == TRUE

\* fetch_session_config and __prepare_training_session_config: the bot's
\* session config, the defaults when it has none.
PrepareTrainingSessionConfig(d, bot) ==
    LET P(x) == x.bot = bot
        ids == IdsFrom(P, d.SessionConfigs, 1)
    IN  IF ids # <<>>
        THEN [session_expiration_time |-> d.SessionConfigs[ids[1]].sesssionExpirationTime,
              carry_over_slots |-> d.SessionConfigs[ids[1]].carryOverSlots]
        ELSE [session_expiration_time |-> DefaultSessionExpirationTime,
              carry_over_slots |-> DefaultCarryOverSlots]

\* MongoProcessor.load_domain: the dict handed to Domain.from_dict
LoadDomain(d, bot) ==
    [intents |-> PrepareTrainingIntents(d, bot),
     actions |-> PrepareTrainingActions(d, bot),
     slots |-> PrepareTrainingSlots(d, bot),
     session_config |-> PrepareTrainingSessionConfig(d, bot),
     responses |-> PrepareTrainingResponses(d, bot),
     forms |-> PrepareTrainingForms(d, bot),
     entities |-> PrepareTrainingDomainEntities(d, bot)]

load_domain(bot) == LoadDomain(db, bot)

(***************************************************************************)
(* Stories: save_stories and load_stories.  A story step is [block_name,   *)
(* events], an event [type_name, name] (the text of a user event, the      *)
(* action name of an action event; events of another kind have another     *)
(* type_name).                                                             *)
(***************************************************************************)
\* __extract_story_events: user and action events are kept, others dropped.
ExtractStoryEvents(events) ==
    LET P(e) == e.type_name \in {"user", "action"}
        ids == IdsFrom(P, events, 1)
    IN  [k \in DOMAIN ids |-> StoryEvents(events[ids[k]].type_name, events[ids[k]].name)]

\* __extract_story_step
ExtractStoryStep(story_steps, bot) ==
    [i \in DOMAIN story_steps |->
        Stories(story_steps[i].block_name, ExtractStoryEvents(story_steps[i].events), bot)]

\* MongoProcessor.save_stories
SaveStoriesIn(d, story_steps, bot) ==
    IF story_steps = <<>> THEN d
    ELSE Insert(d, "Stories", ExtractStoryStep(story_steps, bot))

SaveStories(story_steps, bot) == SaveStoriesIn(db, story_steps, bot)

save_stories(story_steps, bot) ==
    /\ db' = SaveStories(story_steps, bot)
    /\ Returns("save_stories", bot, story_steps, OK)

\* __prepare_training_story_events (the fresh timestamp is left out)
PrepareTrainingStoryEvents(events) ==
    LET P(e) == e.type \in {"user", "action"}
        ids == IdsFrom(P, events, 1)
    IN  [k \in DOMAIN ids |-> [type_name |-> events[ids[k]].type, name |-> events[ids[k]].name]]

\* __prepare_training_story_step: a story step per active story.
LoadStories(d, bot) ==
    LET ids == Objects(d, "Stories", bot, TRUE)
    IN  [k \in DOMAIN ids |->
            [block_name |-> d.Stories[ids[k]].block_name,
             events |-> PrepareTrainingStoryEvents(d.Stories[ids[k]].events)]]

\* MongoProcessor.load_stories
load_stories(bot) == LoadStories(db, bot)

(***************************************************************************)
(* Inline entity markup of a training example, [entity_text](entity) or    *)
(* [entity_text](entity:value), as the markdown reader's ent_regex reads   *)
(* it: \[([^\]]+)\]\(([^:)]*?)(?:\:([^)]+))?\)                             *)
(***************************************************************************)
\* The first index from i on whose symbol is in S; 0 when there is none.
RECURSIVE IndexFrom(_, _, _)
IndexFrom(s, i, S) ==
    IF i > Len(s) THEN 0
    ELSE IF s[i] \in S THEN i
    ELSE IndexFrom(s, i + 1, S)

NoMatch == [found |-> FALSE]

\* The match of ent_regex that starts at index i, if there is one.
MatchAt(s, i) ==
    IF s[i] # "[" THEN NoMatch
    ELSE LET j == IndexFrom(s, i + 1, {"]"})
         IN  IF j < i + 2 \/ j + 1 > Len(s) \/ s[j + 1] # "(" THEN NoMatch
             ELSE LET k == IndexFrom(s, j + 2, {":", ")"})
                  IN  IF k = 0 THEN NoMatch
                      ELSE IF s[k] = ")"
                      THEN [found |-> TRUE, start |-> i, stop |-> k,
                            entity_text |-> SubSeq(s, i + 1, j - 1),
                            entity |-> SubSeq(s, j + 2, k - 1),
                            value |-> Unset]
                      ELSE LET m == IndexFrom(s, k + 1, {")"})
                           IN  IF m < k + 2 THEN NoMatch
                               ELSE [found |-> TRUE, start |-> i, stop |-> m,
                                     entity_text |-> SubSeq(s, i + 1, j - 1),
                                     entity |-> SubSeq(s, j + 2, k - 1),
                                     value |-> Some(SubSeq(s, k + 1, m - 1))]

\* re.finditer(ent_regex, s) from index i on: the matches, left to right,
\* none overlapping another.
RECURSIVE FindIter(_, _)
FindIter(s, i) ==
    IF i > Len(s) THEN <<>>
    ELSE IF MatchAt(s, i).found
    THEN <<MatchAt(s, i)>> \o FindIter(s, MatchAt(s, i).stop + 1)
    ELSE FindIter(s, i + 1)

\* MarkdownReader._find_entities_in_training_example: each match becomes an
\* entity whose span is counted in the text without its markup.
RECURSIVE EntitiesOfMatches(_, _)
EntitiesOfMatches(matches, offset) ==
    IF matches = <<>> THEN <<>>
    ELSE LET mt == Head(matches)
             start_index == (mt.start - 1) - offset
             end_index == start_index + Len(mt.entity_text)
             entity_value == IF mt.value # Unset /\ mt.value[1] # <<>>
                             THEN mt.value[1] ELSE mt.entity_text
         IN  <<Entity(start_index, end_index, entity_value, mt.entity)>>
             \o EntitiesOfMatches(Tail(matches),
                    offset + ((mt.stop - mt.start + 1) - Len(mt.entity_text)))

find_entities_in_training_example(example) == EntitiesOfMatches(FindIter(example, 1), 0)

\* re.sub(ent_regex, entity_text of the match, example)
RECURSIVE StripMarkup(_, _)
StripMarkup(s, i) ==
    IF i > Len(s) THEN <<>>
    ELSE IF MatchAt(s, i).found
    THEN MatchAt(s, i).entity_text \o StripMarkup(s, MatchAt(s, i).stop + 1)
    ELSE <<s[i]>> \o StripMarkup(s, i + 1)

\* A validate that looks at the first entity only.
TrainingExamplesValidateFirstOnly(doc) ==
    IF doc.entities # <<>>
    THEN IF Slice(doc.text, doc.entities[1].start, doc.entities[1].end)
                # doc.entities[1].value
         THEN "Invalid entity"
         ELSE OK
    ELSE IF check_empty_string(doc.text) \/ check_empty_string(doc.intent)
    THEN "Training Example name and text cannot be empty or blank spaces"
    ELSE OK

\* TrainingExamples.validate
TrainingExamplesValidate(doc) ==
    IF doc.entities # <<>>
    THEN IF \E i \in DOMAIN doc.entities :
                Slice(doc.text, doc.entities[i].start, doc.entities[i].end)
                    # doc.entities[i].value
         THEN "Invalid entity"
         ELSE OK
    ELSE IF check_empty_string(doc.text) \/ check_empty_string(doc.intent)
    THEN "Training Example name and text cannot be empty or blank spaces"
    ELSE OK

\* Slots.validate of a text slot: only the name and the type are looked at.
TextSlotValidate(doc) ==
    IF check_empty_string(doc.name) \/ check_empty_string(Str(doc.type))
    THEN "Slot name and type cannot be empty or blank spaces"
    ELSE OK

(***************************************************************************)
(* The single-item operations.                                             *)
(***************************************************************************)
\* __add_slots_from_entities: a text slot for every entity name the bot has
\* no slot of (read once, before the insert).
\* An __add_slots_from_entities that adds a slot for the first new name only.
AddSlotsFromEntitiesFirstOnly(d, entities, bot) ==
    LET P(e) == e \notin FetchSlotNames(d, bot)
        ids == IdsFrom(P, entities, 1)
    IN  IF ids = <<>> THEN d
        ELSE Insert(d, "Slots", <<Slots(entities[ids[1]], "text", bot)>>)

AddSlotsFromEntities(d, entities, bot) ==
    LET P(e) == e \notin FetchSlotNames(d, bot)
        ids == IdsFrom(P, entities, 1)
    IN  IF ids = <<>> THEN d
        ELSE Insert(d, "Slots", [k \in DOMAIN ids |-> Slots(entities[ids[k]], "text", bot)])

\* MongoProcessor.add_training_example, step by step: the existence check,
\* the intent created when missing, the entities of the markup registered as
\* domain entities and slots, and the save of the example (which validates).
ExampleEntities(example) ==
    IF check_empty_string(example) THEN <<>>
    ELSE find_entities_in_training_example(example)

ExampleDoc(example, intent, bot) ==
    IF ExampleEntities(example) # <<>>
    THEN TrainingExamples(intent, StripMarkup(example, 1),
                          ExtractEntities(ExampleEntities(example)), bot)
    ELSE TrainingExamples(intent, example, <<>>, bot)

AddTrainingExample(example, intent, bot) ==
    IF IsExist(db, "TrainingExamples", bot, "text", example)
    THEN [store |-> db, err |-> "Training Example already exist!"]
    ELSE IF ~IsExist(db, "Intents", bot, "name", intent)
            /\ IntentsValidate(Intents(intent, bot)) # OK
    THEN [store |-> db, err |-> IntentsValidate(Intents(intent, bot))]
    ELSE LET d1 == IF IsExist(db, "Intents", bot, "name", intent) THEN db
                   ELSE Append1("Intents", Intents(intent, bot))
             ext_entity == [i \in DOMAIN ExampleEntities(example) |->
                               ExampleEntities(example)[i].entity]
             d2 == AddSlotsFromEntities(SaveDomainEntities(d1, ext_entity, bot),
                                        ext_entity, bot)
             doc == ExampleDoc(example, intent, bot)
         IN  IF TrainingExamplesValidate(doc) # OK
             THEN [store |-> d2, err |-> TrainingExamplesValidate(doc)]
             ELSE [store |-> [d2 EXCEPT !.TrainingExamples = Append(@, doc)], err |-> OK]

add_training_example(example, intent, bot) ==
    /\ db' = AddTrainingExample(example, intent, bot).store
    /\ Returns("add_training_example", bot, <<example, intent>>,
               AddTrainingExample(example, intent, bot).err)

\* MongoProcessor.add_entity: the entity, then a text slot of its name unless
\* the bot has a slot of that name.
AddEntityErr(name, bot) ==
    IF IsExist(db, "Entities", bot, "name", name) THEN "Entity already exist!"
    ELSE EntitiesValidate(Entities(name, bot))

\* An add_entity that saves a text slot whether or not the bot has one of the name.
AddEntityAlwaysSlot(name, bot) ==
    IF AddEntityErr(name, bot) # OK THEN db
    ELSE LET d1 == Append1("Entities", Entities(name, bot))
         IN  [d1 EXCEPT !.Slots = Append(@, Slots(name, "text", bot))]

AddEntity(name, bot) ==
    IF AddEntityErr(name, bot) # OK THEN db
    ELSE LET d1 == Append1("Entities", Entities(name, bot))
         IN  IF IsExist(d1, "Slots", bot, "name", name) THEN d1
             ELSE [d1 EXCEPT !.Slots = Append(@, Slots(name, "text", bot))]

add_entity(name, bot) ==
    /\ db' = AddEntity(name, bot)
    /\ Returns("add_entity", bot, name, AddEntityErr(name, bot))

\* MongoProcessor.add_action (its message names the entity)
AddActionErr(name, bot) ==
    IF IsExist(db, "Actions", bot, "name", name) THEN "Entity already exist!"
    ELSE ActionsValidate(Actions(name, bot))

add_action(name, bot) ==
    /\ db' = IF AddActionErr(name, bot) = OK
             THEN Append1("Actions", Actions(name, bot))
             ELSE db
    /\ Returns("add_action", bot, name, AddActionErr(name, bot))

get_entities(bot) == DocumentList(db, "Entities", bot, "name")

get_actions(bot) == DocumentList(db, "Actions", bot, "name")

\* MongoProcessor.remove_document
RemoveStatus(coll, id) == FALSE

\* A lookup that finds active records only.
RemoveFoundActiveOnly(coll, id) ==
    id \in DOMAIN db[coll] /\ HasStatus(coll) /\ db[coll][id].status

RemoveFound(coll, id) == id \in DOMAIN db[coll] /\ HasStatus(coll)

\* A remove_document that deletes the record.
remove_document_delete(coll, id) ==
    /\ db' = IF RemoveFound(coll, id)
             THEN [db EXCEPT ![coll] = SubSeq(@, 1, id - 1) \o SubSeq(@, id + 1, Len(@))]
             ELSE db
    /\ Returns("remove_document", "", <<coll, id>>,
               IF RemoveFound(coll, id) THEN OK ELSE "Unable to remove document")

remove_document(coll, id) ==
    /\ db' = IF RemoveFound(coll, id)
             THEN [db EXCEPT ![coll][id].status = RemoveStatus(coll, id)]
             ELSE db
    /\ Returns("remove_document", "", <<coll, id>>,
               IF RemoveFound(coll, id) THEN OK ELSE "Unable to remove document")

(***************************************************************************)
(* The inputs of the repository's calls.                                   *)
(***************************************************************************)
greet == Str("greet")
city == Str("city")
utter_greet == Str("utter_greet")
blank == Str(" ")

\* "go NY", the place marked as a city
GoNY == [text |-> <<"go", " ", "NY">>, intent |-> greet,
         entities |-> <<Entity(2, 3, <<"NY">>, city)>>]

Hi == [text |-> <<"hi">>, intent |-> greet]

Nlu1 ==
    [training_examples |-> <<GoNY, Hi>>,
     entity_synonyms |-> << <<Str("NYC"), Str("New York")>> >>,
     lookup_tables |-> <<[name |-> city, elements |-> <<Str("NY"), Str("LA")>>]>>,
     regex_features |-> <<[name |-> Str("zip"), pattern |-> Str("[0-9]{5}")]>>]

TextSlot(name) ==
    [name |-> name, type_name |-> "text", initial_value |-> Unset,
     value_reset_delay |-> Unset, auto_fill |-> TRUE, values |-> <<>>,
     min_value |-> Unset, max_value |-> Unset]

Domain1 ==
    [intents |-> <<greet>>,
     entities |-> <<city>>,
     form_names |-> <<Str("booking_form")>>,
     user_actions |-> <<utter_greet>>,
     templates |-> << <<utter_greet, <<[text |-> Str("Hello")]>> >> >>,
     slots |-> <<TextSlot(city)>>]

Story1 ==
    [block_name |-> Str("greet path"),
     events |-> <<[type_name |-> "user", name |-> greet],
                  [type_name |-> "slot", name |-> city],
                  [type_name |-> "action", name |-> utter_greet]>>]

IntentNames == {greet, blank}
EntityNames == {city, blank}
ActionNames == {utter_greet}
Examples == {<<"hi">>, <<"go", " ", "[", "NY", "]", "(", "city", ")">>}
NluInputs == {Nlu1}
DomainInputs == {Domain1}
StoryInputs == {<<Story1>>}

(***************************************************************************)
(* Specification of the repository: any sequence of MaxOps calls.          *)
(***************************************************************************)
EmptyDb == [c \in Collections |-> <<>>]

NoCall == Call("none", "", <<>>, OK)

\* The callers that call the repository concurrently, and a caller that
\* is in no call.
Callers == {"c1", "c2"}

IdleCall == [pc |-> "idle", op |-> "", bot |-> "", name |-> <<>>, err |-> OK]

\* No repository call made, no document constructed, no request received.
RepoIdle ==
    /\ calls = [c \in Callers |-> IdleCall]
    /\ db = EmptyDb
    /\ last = NoCall
    /\ nops = 0
    /\ removed = {}
    /\ removals = 0
    /\ saved = [b \in Bots |-> NoNlu]

NoExample == TrainingExamples(<<>>, <<>>, <<>>, "")

ValidateIdle ==
    /\ candidate = NoExample
    /\ verdict = "none"

Requests == {"r1", "r2"}

NoRequest == [bot |-> ""]

NoTask == [pc |-> "none"]

\* Whatsapp.__init__: no last message; the client is set with the first change.
NoChannel == [last_message |-> <<>>, client |-> <<>>]

ChannelIdle ==
    /\ sent = <<>>
    /\ channels = [r \in Requests |-> NoChannel]
    /\ reqs = [r \in Requests |-> NoRequest]
    /\ tasks = [r \in Requests |-> NoTask]
    /\ log = [r \in Requests |-> <<>>]

InitRepo == RepoIdle /\ ValidateIdle /\ ChannelIdle

NextRepo ==
    \/ \E nlu \in NluInputs, bot \in Bots :
            nops < MaxRepoOps /\ save_nlu(nlu, bot, NoFailure)
    \/ \E domain \in DomainInputs, bot \in Bots :
            nops < MaxRepoOps /\ save_domain(domain, bot)
    \/ \E steps \in StoryInputs, bot \in Bots :
            nops < MaxRepoOps /\ save_stories(steps, bot)
    \/ \E text \in IntentNames, bot \in Bots :
            nops < MaxRepoOps /\ add_intent(text, bot)
    \/ \E example \in Examples, bot \in Bots :
            nops < MaxRepoOps /\ add_training_example(example, greet, bot)
    \/ \E name \in EntityNames, bot \in Bots :
            nops < MaxRepoOps /\ add_entity(name, bot)
    \/ \E name \in ActionNames, bot \in Bots :
            nops < MaxRepoOps /\ add_action(name, bot)
    \/ \E coll \in Collections : \E id \in 1..(Len(db[coll]) + 1) :
            nops < MaxRepoOps /\ remove_document(coll, id)

SpecRepo == InitRepo /\ [][NextRepo]_vars

(***************************************************************************)
(* Specification of the intents of a bot: the calls that write or remove   *)
(* them, in runs of MaxOps calls.                                          *)
(***************************************************************************)
NextIntents ==
    \/ \E text \in IntentNames, bot \in Bots :
            nops < MaxOps /\ add_intent(text, bot)
    \/ \E domain \in DomainInputs, bot \in Bots :
            nops < MaxOps /\ save_domain(domain, bot)
    \/ \E example \in Examples, bot \in Bots :
            nops < MaxOps /\ add_training_example(example, greet, bot)
    \/ \E id \in 1..(Len(db.Intents) + 1) :
            nops < MaxOps /\ remove_document("Intents", id)

SpecIntents == InitRepo /\ [][NextIntents]_vars

(***************************************************************************)
(* Specification of the training-data round trip: save_nlu of varied       *)
(* training data (any one insert of it may be refused), single examples    *)
(* and removals.                                                           *)
(***************************************************************************)
\* The same items as Nlu2r, in the opposite order; two lookup tables share a name.
Nlu2 ==
    [training_examples |-> <<Hi, GoNY>>,
     entity_synonyms |-> << <<Str("NYC"), Str("New York")>>, <<Str("LA"), Str("Los Angeles")>> >>,
     lookup_tables |-> <<[name |-> city, elements |-> <<Str("NY")>>],
                         [name |-> Str("state"), elements |-> <<Str("CA"), Str("NY")>>],
                         [name |-> city, elements |-> <<Str("LA")>>]>>,
     regex_features |-> <<[name |-> Str("zip"), pattern |-> Str("[0-9]{5}")],
                          [name |-> Str("year"), pattern |-> Str("[0-9]{4}")]>>]

Reverse(s) == [i \in DOMAIN s |-> s[Len(s) + 1 - i]]

Nlu2r ==
    [training_examples |-> Reverse(Nlu2.training_examples),
     entity_synonyms |-> Reverse(Nlu2.entity_synonyms),
     lookup_tables |-> Reverse(Nlu2.lookup_tables),
     regex_features |-> Reverse(Nlu2.regex_features)]

NluEmpty ==
    [training_examples |-> <<>>, entity_synonyms |-> <<>>,
     lookup_tables |-> <<>>, regex_features |-> <<>>]

RichNluInputs == {Nlu1, Nlu2, Nlu2r, NluEmpty}

\* The insert save_nlu is refused at: none, or the lookup tables'.
NluFailures == {NoFailure, Failure(3, 0)}

NextNlu ==
    \/ \E nlu \in RichNluInputs, bot \in Bots, fail \in NluFailures :
            nops < MaxRepoOps /\ save_nlu(nlu, bot, fail)
    \/ \E example \in Examples, bot \in Bots :
            nops < MaxRepoOps /\ add_training_example(example, greet, bot)
    \/ \E coll \in NluCollections : \E id \in DOMAIN db[coll] :
            nops < MaxRepoOps /\ remove_document(coll, id)

SpecNlu == InitRepo /\ [][NextNlu]_vars

(***************************************************************************)
(* Claims about the repository.                                            *)
(***************************************************************************)
\* The number of entries of get_intents(bot) with the given name.
IntentEntries(bot, name) ==
    Cardinality({k \in DOMAIN get_intents(bot) : get_intents(bot)[k].value = name})

\* A step that is the second of two add_intent calls, one right after the
\* other, with the same name and bot.
SecondAddIntent ==
    /\ last.op = "add_intent"
    /\ nops' = nops + 1
    /\ last'.op = "add_intent"
    /\ last'.bot = last.bot
    /\ last'.arg = last.arg

\* C1, as stated: whatever the name and the bot, the second of two sequential
\* add_intent(name, bot) calls fails with 'Intent already exist!' and
\* get_intents(bot) then reports exactly one entry with that name.
C1_SecondAddFailsOneEntry ==
    [][SecondAddIntent =>
        /\ last'.err = "Intent already exist!"
        /\ IntentEntries(last.bot, last.arg)' = 1]_vars

\* C1, amended: for a name that is not blank the second of two sequential
\* add_intent(name, bot) calls fails with 'Intent already exist!' and stores
\* nothing; and when the first call succeeded, get_intents(bot) then reports
\* exactly one entry with that name.
C1_SecondAddFails ==
    [][SecondAddIntent =>
        /\ ~check_empty_string(last.arg) =>
                (last'.err = "Intent already exist!" /\ db' = db)
        /\ last.err = OK => IntentEntries(last.bot, last.arg)' = 1]_vars

\* C1's case: add_intent has just failed with 'Intent already exist!' on a
\* name of which the bot holds one entry.
C1_Witness ==
    /\ last.op = "add_intent"
    /\ last.err = "Intent already exist!"
    /\ IntentEntries(last.bot, last.arg) = 1

\* The store without the documents of R.
Purge(d, R) ==
    [c \in Collections |->
        LET P(i) == <<c, i>> \notin R
            ids == IdsFrom(P, [i \in DOMAIN d[c] |-> i], 1)
        IN  [k \in DOMAIN ids |-> d[c][ids[k]]]]

\* C2: once remove_document has succeeded on a record, the record is inactive
\* in every later state, and load_nlu, load_domain and load_stories return for
\* every bot what they would return if the removed records were not stored.
C2_RemovedStaysExcluded ==
    /\ \A r \in removed : r[2] \in DOMAIN db[r[1]] /\ db[r[1]][r[2]].status = FALSE
    /\ \A b \in Bots :
        /\ load_nlu(b) = LoadNlu(Purge(db, removed), b)
        /\ load_domain(b) = LoadDomain(Purge(db, removed), b)
        /\ load_stories(b) = LoadStories(Purge(db, removed), b)

\* C2's case: an intent was removed, a later save_domain stored the bot's
\* intents again, and load_domain reports the new one only.
C2_Witness ==
    \E r \in removed :
        /\ r[1] = "Intents"
        /\ last.op = "save_domain"
        /\ last.bot = db.Intents[r[2]].bot
        /\ Len(db.Intents) = 2
        /\ load_domain(last.bot).intents = <<greet>>

\* The number of removed documents of the bot in a collection.
RemovedCount(coll, bot) ==
    Cardinality({r \in removed : r[1] = coll /\ db[coll][r[2]].bot = bot})

LookupElements(tables) == SeqSum([i \in DOMAIN tables |-> Len(tables[i].elements)])

\* C3: for a bot that held no training data, after save_nlu of N examples, M
\* synonyms, K lookup elements and J regex features, in whatever order,
\* load_nlu returns N examples, M synonym entries, K lookup elements and J
\* regex features, less the items removed since.
C3_RoundTripCounts ==
    \A b \in Bots : saved[b].state = "saved" =>
        LET nlu == saved[b].nlu
            out == load_nlu(b)
        IN  /\ Len(out.training_examples)
                 = Len(nlu.training_examples) - RemovedCount("TrainingExamples", b)
            /\ Cardinality(DOMAIN out.entity_synonyms)
                 = Len(nlu.entity_synonyms) - RemovedCount("EntitySynonyms", b)
            /\ LookupElements(out.lookup_tables)
                 = LookupElements(nlu.lookup_tables) - RemovedCount("LookupTables", b)
            /\ Len(out.regex_features)
                 = Len(nlu.regex_features) - RemovedCount("RegexFeatures", b)

\* C3's case: training data with two tables of one name was saved into an
\* empty bot, a lookup row was removed, and load_nlu regroups the rest.
C3_Witness ==
    \E b \in Bots :
        /\ saved[b] = SavedNlu(Nlu2r)
        /\ RemovedCount("LookupTables", b) = 1
        /\ LookupElements(load_nlu(b).lookup_tables) = 3
        /\ Len(load_nlu(b).lookup_tables) = 2

(***************************************************************************)
(* Specification of TrainingExamples.validate: a document is constructed   *)
(* from any text, intent and entities of the sets below, then validated.   *)
(***************************************************************************)
\* Entity positions run over -MaxPos..MaxPos: before, inside and past the text.
MaxPos == 2

Positions == (0 - MaxPos)..MaxPos

ExampleTexts == {<<>>, <<" ">>, <<"a", "b">>, <<"a", "b", "a">>}

EntityValues == {<<>>, <<"a">>, <<"b">>, <<"a", "b">>}

CandidateEntities ==
    {Entity(start, end, value, city) :
        start \in Positions, end \in Positions, value \in EntityValues}

EntityLists ==
    {<<>>} \cup {<<e>> : e \in CandidateEntities}
           \cup {<<e1, e2>> : e1 \in CandidateEntities, e2 \in CandidateEntities}

InitValidate ==
    /\ RepoIdle
    /\ ChannelIdle
    /\ candidate \in {TrainingExamples(intent, text, entities, "b1") :
                        intent \in IntentNames, text \in ExampleTexts,
                        entities \in EntityLists}
    /\ verdict = "none"

validate ==
    /\ verdict = "none"
    /\ verdict' = TrainingExamplesValidate(candidate)
    /\ UNCHANGED <<candidate, repoVars, chanVars>>

NextValidate == validate

SpecValidate == InitValidate /\ [][NextValidate]_vars

\* The entity at position i of the document does not name the slice it points at.
Mismatch(doc, i) ==
    Slice(doc.text, doc.entities[i].start, doc.entities[i].end) # doc.entities[i].value

\* C4: validate rejects every training example one of whose entities has
\* text[start:end] # value, so a training example with entities that passed
\* validation has text[start:end] = value for each of its entities.
C4_MismatchRejected ==
    /\ (verdict # "none" /\ \E i \in DOMAIN candidate.entities : Mismatch(candidate, i))
            => verdict = "Invalid entity"
    /\ (verdict = OK /\ candidate.entities # <<>>)
            => \A i \in DOMAIN candidate.entities : ~Mismatch(candidate, i)

\* A rejected example whose first entity is right and whose second is wrong.
C4_Witness ==
    /\ verdict = "Invalid entity"
    /\ Len(candidate.entities) = 2
    /\ candidate.entities[1].value # <<>>
    /\ ~Mismatch(candidate, 1)
    /\ Mismatch(candidate, 2)

(***************************************************************************)
(* The WhatsApp webhook channel.  A Python dict is a function on its keys; *)
(* channel texts, ids and keys are atomic strings.                         *)
(***************************************************************************)
EmptyDict == <<>>

None == "<None>"

\* d.get(key, default)
Get(d, key, default) == IF key \in DOMAIN d THEN d[key] ELSE default

\* a.update(b)
Update(a, b) ==
    [k \in DOMAIN a \cup DOMAIN b |-> IF k \in DOMAIN b THEN b[k] ELSE a[k]]

\* What Whatsapp.message makes of a raw message: the text and the message it
\* hands on, nothing, or the exception it raises.
Normalized(text, message) == [out |-> "ok", text |-> text, message |-> message]
Dropped == [out |-> "skip"]
Raises(err) == [out |-> "error", err |-> err]

MediaTypes == {"image", "audio", "document", "video", "voice"}

Marker(kind, id) == "/k_multimedia_msg{\"" \o kind \o "\": \"" \o id \o "\"}"

\* An unhandled type that raises instead of being dropped.
UnhandledRaises(message) == Raises("ValueError")

\* The else branch: a warning is logged and message returns.
Unhandled(message) == Dropped

Normalize(message) ==
    LET type == Get(message, "type", None) IN
    IF type = "interactive"
    THEN IF "interactive" \notin DOMAIN message
         THEN Raises("AttributeError")
         ELSE LET interactive_type == Get(message["interactive"], "type", None) IN
              IF /\ interactive_type \in DOMAIN message["interactive"]
                 /\ "id" \in DOMAIN message["interactive"][interactive_type]
              THEN Normalized(message["interactive"][interactive_type]["id"], message)
              ELSE Raises("KeyError")
    ELSE IF type = "text"
    THEN IF "text" \in DOMAIN message /\ "body" \in DOMAIN message["text"]
         THEN Normalized(message["text"]["body"], message)
         ELSE Raises("KeyError")
    ELSE IF type = "button"
    THEN IF "button" \in DOMAIN message /\ "text" \in DOMAIN message["button"]
         THEN Normalized(message["button"]["text"], message)
         ELSE Raises("KeyError")
    ELSE IF type \in MediaTypes
    THEN LET renamed == IF message["type"] = "voice"
                        THEN [message EXCEPT !["type"] = "audio"]
                        ELSE message
             kind == renamed["type"]
         IN  IF kind \in DOMAIN renamed /\ "id" \in DOMAIN renamed[kind]
             THEN Normalized(Marker(kind, renamed[kind]["id"]), renamed)
             ELSE Raises("KeyError")
    ELSE Unhandled(message)

\* Raw messages, as the provider sends them.
RawText(id, body) ==
    [id |-> id, from |-> "u1", type |-> "text", text |-> [body |-> body]]

\* A quick-reply button; it carries a text-shaped field as well.
RawButton(id) ==
    [id |-> id, from |-> "u1", type |-> "button",
     button |-> [text |-> "Yes", payload |-> "yes_payload"],
     text |-> [body |-> "not the button"]]

RawInteractive(id) ==
    [id |-> id, from |-> "u2", type |-> "interactive",
     interactive |-> [type |-> "button_reply",
                      button_reply |-> [id |-> "opt1", title |-> "Option 1"]],
     text |-> [body |-> "not the reply"]]

RawMedia(id, kind, media_id) ==
    [k \in {"id", "from", "type", kind} |->
        IF k = "id" THEN id
        ELSE IF k = "from" THEN "u1"
        ELSE IF k = "type" THEN kind
        ELSE [id |-> media_id]]

RawUnknown(id) == [id |-> id, from |-> "u1", type |-> "unknown_kind"]

\* A message with no type at all.
RawUntyped(id) == [id |-> id, from |-> "u1"]

\* Webhook payloads: entries, each with changes, each with a value that may
\* hold messages.
Change(phone, messages) ==
    [field |-> "messages",
     value |-> [metadata |-> [display_phone_number |-> "+1" \o phone,
                              phone_number_id |-> phone],
                messages |-> messages]]

\* A change that reports delivery statuses: its value holds no messages.
StatusChange(phone) ==
    [field |-> "messages",
     value |-> [metadata |-> [display_phone_number |-> "+1" \o phone,
                              phone_number_id |-> phone],
                statuses |-> <<[id |-> "m0", status |-> "read"]>>]]

PayloadMixed ==
    [entry |-> <<[changes |-> <<Change("p1", <<RawText("m1", "hello"), RawButton("m2"),
                                             RawUnknown("m3"), RawInteractive("m4")>>)>>]>>]

PayloadMedia ==
    [entry |-> <<[changes |-> <<StatusChange("p1"),
                                Change("p1", <<RawMedia("m1", "image", "img1"),
                                               RawMedia("m2", "audio", "aud1")>>)>>],
                 [changes |-> <<Change("p2", <<RawMedia("m3", "document", "doc1"),
                                               RawUntyped("m4"),
                                               RawMedia("m5", "video", "vid1")>>)>>]>>]

PayloadVoice ==
    [entry |-> <<[changes |-> <<Change("p1", <<RawText("m1", "hi"),
                                               RawMedia("m2", "voice", "abc"),
                                               RawText("m3", "bye")>>)>>]>>]

\* Entries with no change, and a change with no value.
PayloadEmpty ==
    [entry |-> <<[changes |-> <<>>], [changes |-> <<[field |-> "account_update"]>>]>>]

Payloads == {PayloadMixed, PayloadMedia, PayloadVoice, PayloadEmpty}

\* Channel configurations: of the meta provider, and of another one.
MetaConfig == [app_secret |-> "s3cret", access_token |-> "token-meta"]

DialogConfig == [bsp_type |-> "360dialog", api_key |-> "key-360"]

\* The X-Hub-Signature header is "<method>=<digest>"; its two parts, or no
\* part when the header is absent or not of that shape.  The digest of a
\* payload under a secret names the two, as a keyed hash does.
Digest(secret, payload) == <<secret, payload>>

Sign(secret, payload) == <<"sha1", Digest(secret, payload)>>

NoSignature == <<>>

\* MessengerHandler.validate_hub_signature
validate_hub_signature(app_secret, payload, signature) ==
    /\ Len(signature) = 2
    /\ signature[2] = Digest(app_secret, payload)

Request(bot, config, payload, signature) ==
    [bot |-> bot, config |-> config, payload |-> payload, signature |-> signature]

\* The requests the webhook receives: signed with the secret, signed with
\* another one, or unsigned.
RequestInputs ==
    {Request("b1", MetaConfig, payload, Sign(MetaConfig.app_secret, payload)) :
        payload \in Payloads}
    \cup {Request("b1", MetaConfig, PayloadMixed, signature) :
        signature \in {Sign("guess", PayloadMixed), NoSignature,
                       Sign(MetaConfig.app_secret, PayloadEmpty)}}
    \cup {Request("b2", DialogConfig, payload, NoSignature) :
        payload \in {PayloadMedia, PayloadEmpty}}

\* What is observed of a request.
SpawnEvent == [ev |-> "spawn_callback"]
ReturnEvent(msg) == [ev |-> "return", msg |-> msg]
WarningEvent(message) == [ev |-> "warning", message |-> message]
MarkAsReadEvent(msg_id, client) == [ev |-> "mark_as_read", id |-> msg_id, client |-> client]
HandleMessageEvent(text, sender_id, metadata) ==
    [ev |-> "handle_message", text |-> text, sender_id |-> sender_id, metadata |-> metadata]
ExceptionEvent == [ev |-> "exception"]

Provider(config) == Get(config, "bsp_type", "meta")

\* WhatsappHandler.handle_message: the metadata handle_payload is given.
HandlerMetadata(bot) ==
    Update(EmptyDict, [is_integration_user |-> TRUE, bot |-> bot, account |-> "acct-" \o bot])

\* A check that lets every request through.
ValidatedAlways(config, payload, signature) == TRUE

\* handle_payload's check: of the meta provider only.
Validated(config, payload, signature) ==
    Provider(config) = "meta"
        => validate_hub_signature(config["app_secret"], payload, signature)

\* The callback as spawn_callback is given it: __handle_meta_payload of the
\* channel object self, not yet started.
Task(self, request, metadata) ==
    [pc |-> "change", self |-> self, bot |-> request.bot, config |-> request.config,
     payload |-> request.payload, metadata |-> metadata,
     e |-> 1, c |-> 1, m |-> 1,
     text |-> None, err |-> None]

\* The channel object that handles the request: WhatsappHandler.handle_message
\* makes a new one for every request; a request that names a channel stands
\* for an application that calls handle_payload of an object it keeps.
ChannelOf(r, request) == IF "channel" \in DOMAIN request THEN request.channel ELSE r

\* A handle_payload that has not returned when the callback starts.
Awaited(msg) == <<SpawnEvent>>

\* spawn_callback, then return msg.
Spawned(msg) == <<SpawnEvent, ReturnEvent(msg)>>

handle_payload(r, request) ==
    /\ reqs[r] = NoRequest
    /\ reqs' = [reqs EXCEPT ![r] = request]
    /\ LET provider == Provider(request.config)
           metadata == Update(HandlerMetadata(request.bot),
                              [channel_type |-> "whatsapp", bsp_type |-> provider,
                               tabname |-> "default"])
       IN  IF ~Validated(request.config, request.payload, request.signature)
           THEN /\ log' = [log EXCEPT ![r] = <<ReturnEvent("not validated")>>]
                /\ tasks' = tasks
           ELSE /\ log' = [log EXCEPT ![r] = Spawned("success")]
                /\ tasks' = [tasks EXCEPT ![r] = Task(ChannelOf(r, request), request, metadata)]
    /\ UNCHANGED <<channels, sent, repoVars, validateVars>>

CurrentEntry(t) == t.payload["entry"][t.e]

CurrentChanges(t) == CurrentEntry(t)["changes"][t.c]

\* The first message of a change only.
MessagesFirstOnly(changes) ==
    LET value == Get(changes, "value", EmptyDict)
    IN  IF "messages" \in DOMAIN value THEN SubSeq(value["messages"], 1, 1) ELSE <<>>

\* changes.get("value", {}).get("messages") or []
Messages(changes) ==
    LET value == Get(changes, "value", EmptyDict)
    IN  IF "messages" \in DOMAIN value THEN value["messages"] ELSE <<>>

CurrentMessage(t) == Messages(CurrentChanges(t))[t.m]

AccessToken(config) ==
    IF Provider(config) = "meta"
    THEN Get(config, "access_token", None)
    ELSE Get(config, "api_key", None)

\* A lookup that never finds the phone number id.
get_business_phone_number_id_default(last_message) == ""

get_business_phone_number_id(last_message) ==
    Get(Get(Get(last_message, "value", EmptyDict), "metadata", EmptyDict),
        "phone_number_id", "")

Client(provider, access_token, from_phone_number_id) ==
    [provider |-> provider, access_token |-> access_token,
     from_phone_number_id |-> from_phone_number_id]

\* One turn of the loops of __handle_meta_payload: the payload is done, the
\* entry is done, or the next change is taken up.
handle_meta_payload(r) ==
    /\ tasks[r].pc = "change"
    /\ LET t == tasks[r] IN
       tasks' = [tasks EXCEPT ![r] =
            IF t.e > Len(t.payload["entry"])
            THEN [t EXCEPT !.pc = "done"]
            ELSE IF t.c > Len(CurrentEntry(t)["changes"])
            THEN [t EXCEPT !.e = @ + 1, !.c = 1]
            ELSE LET changes == CurrentChanges(t)
                     msg_metadata == Get(Get(changes, "value", EmptyDict),
                                         "metadata", EmptyDict)
                 IN  [t EXCEPT !.metadata = Update(@, msg_metadata),
                               !.m = 1,
                               !.pc = "message"]]
    /\ LET t == tasks[r] IN
       channels' =
            IF /\ t.e <= Len(t.payload["entry"])
               /\ t.c <= Len(CurrentEntry(t)["changes"])
            THEN [channels EXCEPT ![t.self] =
                    [last_message |-> CurrentChanges(t),
                     client |-> Client(Provider(t.config), AccessToken(t.config),
                                       get_business_phone_number_id(CurrentChanges(t)))]]
            ELSE channels
    /\ UNCHANGED <<reqs, log, sent, repoVars, validateVars>>

Failed(t, err) == [t EXCEPT !.pc = "failed", !.err = err]

\* A _handle_user_message that calls the agent before it marks as read.
handle_user_message_agent_first(text, sender_id, metadata, client) ==
    <<HandleMessageEvent(text, sender_id, metadata),
      MarkAsReadEvent(metadata["id"], client)>>

\* _handle_user_message up to the call of the agent: mark_as_read of the id
\* in the metadata through the channel's client, then process_message.
handle_user_message(text, sender_id, metadata, client) ==
    <<MarkAsReadEvent(metadata["id"], client),
      HandleMessageEvent(text, sender_id, metadata)>>

\* A callback that does not await the agent: it goes on to the next message.
ProcessMessageNotAwaited(t, text) == [t EXCEPT !.m = @ + 1]

\* await self.process_message(bot, user_msg): the callback is suspended until
\* the agent returns or raises.
ProcessMessage(t, text) == [t EXCEPT !.pc = "agent", !.text = text]

\* Whatsapp.message on the next message of the change, and for a message it
\* handles _handle_user_message up to the call of the agent; marked tells
\* whether the client's mark_as_read went through.
message(r, marked) ==
    /\ tasks[r].pc = "message"
    /\ LET t == tasks[r]
           messages == Messages(CurrentChanges(t))
       IN  IF t.m > Len(messages)
           THEN /\ tasks' = [tasks EXCEPT ![r] = [t EXCEPT !.c = @ + 1, !.pc = "change"]]
                /\ log' = log
           ELSE LET n == Normalize(messages[t.m]) IN
                IF n.out = "skip"
                THEN /\ tasks' = [tasks EXCEPT ![r] = [t EXCEPT !.m = @ + 1]]
                     /\ log' = [log EXCEPT ![r] = Append(@, WarningEvent(messages[t.m]))]
                ELSE IF n.out = "error"
                THEN /\ tasks' = [tasks EXCEPT ![r] = Failed(t, n.err)]
                     /\ log' = log
                ELSE LET metadata == Update(n.message, t.metadata) IN
                     IF "from" \notin DOMAIN metadata \/ "id" \notin DOMAIN metadata
                     THEN /\ tasks' = [tasks EXCEPT ![r] = Failed(t, "KeyError")]
                          /\ log' = log
                     ELSE IF ~marked
                     THEN /\ tasks' = [tasks EXCEPT ![r] = Failed(t, "mark_as_read")]
                          /\ log' = log
                     ELSE /\ tasks' = [tasks EXCEPT ![r] = ProcessMessage(t, n.text)]
                          /\ log' = [log EXCEPT ![r] =
                                @ \o handle_user_message(n.text, metadata["from"],
                                                         metadata,
                                                         channels[t.self].client)]
    /\ UNCHANGED <<reqs, channels, sent, repoVars, validateVars>>

\* The agent's handle_message returns.
agent_returns(r) ==
    /\ tasks[r].pc = "agent"
    /\ tasks' = [tasks EXCEPT ![r] =
                    [@ EXCEPT !.pc = "message", !.m = @ + 1, !.text = None]]
    /\ UNCHANGED <<reqs, channels, log, sent, repoVars, validateVars>>

\* The exception of the agent leaves _handle_user_message.
agent_raises_unhandled(r) ==
    /\ tasks[r].pc = "agent"
    /\ tasks' = [tasks EXCEPT ![r] = Failed(@, "agent")]
    /\ log' = log
    /\ UNCHANGED <<reqs, channels, sent, repoVars, validateVars>>

\* The agent's handle_message raises: the exception is logged and dropped.
agent_raises(r) ==
    /\ tasks[r].pc = "agent"
    /\ tasks' = [tasks EXCEPT ![r] =
                    [@ EXCEPT !.pc = "message", !.m = @ + 1, !.text = None]]
    /\ log' = [log EXCEPT ![r] = Append(@, ExceptionEvent)]
    /\ UNCHANGED <<reqs, channels, sent, repoVars, validateVars>>

(***************************************************************************)
(* Specification of the channel: requests arrive, each spawned callback    *)
(* runs at its own pace, and the agent returns, raises, or does neither.   *)
(* FairSpecChannel is the channel of validated requests whose callbacks    *)
(* are run by the loop and whose agent never hangs.                        *)
(***************************************************************************)
InitChannel == RepoIdle /\ ValidateIdle /\ ChannelIdle

NextChannel ==
    \/ \E r \in Requests, request \in RequestInputs : handle_payload(r, request)
    \/ \E r \in Requests : handle_meta_payload(r)
    \/ \E r \in Requests, marked \in BOOLEAN : message(r, marked)
    \/ \E r \in Requests : agent_returns(r)
    \/ \E r \in Requests : agent_raises(r)

SpecChannel == InitChannel /\ [][NextChannel]_vars

\* The requests whose payloads fan out: validated ones, of both providers.
FanOutInputs ==
    {Request("b1", MetaConfig, payload, Sign(MetaConfig.app_secret, payload)) :
        payload \in {PayloadMedia, PayloadVoice}}
    \cup {Request("b2", DialogConfig, PayloadEmpty, NoSignature)}

NextFanOut ==
    \/ \E r \in Requests, request \in FanOutInputs : handle_payload(r, request)
    \/ \E r \in Requests : handle_meta_payload(r)
    \/ \E r \in Requests, marked \in BOOLEAN : message(r, marked)
    \/ \E r \in Requests : agent_returns(r)
    \/ \E r \in Requests : agent_raises(r)

FairSpecChannel ==
    /\ InitChannel /\ [][NextFanOut]_vars
    /\ \A r \in Requests :
        /\ WF_vars(handle_meta_payload(r))
        /\ WF_vars(\E marked \in BOOLEAN : message(r, marked))
        /\ WF_vars(agent_returns(r) \/ agent_raises(r))

(***************************************************************************)
(* Claims about the channel.                                               *)
(***************************************************************************)
\* The events of one kind observed of a request, in order.
Events(r, ev) == SelectSeq(log[r], LAMBDA e : e.ev = ev)

\* The positions in the log of a request of the events of the given kinds.
EventPositions(r, evs) == {i \in DOMAIN log[r] : log[r][i].ev \in evs}

RECURSIVE Concat(_)
Concat(ss) == IF ss = <<>> THEN <<>> ELSE Head(ss) \o Concat(Tail(ss))

\* The messages a change bundles, and those a payload bundles, in order.
ChangeMessages(changes) ==
    IF "value" \in DOMAIN changes /\ "messages" \in DOMAIN changes["value"]
    THEN changes["value"]["messages"]
    ELSE <<>>

PayloadMessages(payload) ==
    Concat([i \in DOMAIN payload["entry"] |->
        Concat([j \in DOMAIN payload["entry"][i]["changes"] |->
            ChangeMessages(payload["entry"][i]["changes"][j])])])

RecognizedTypes ==
    {"interactive", "text", "button", "image", "audio", "document", "video", "voice"}

Recognized(raw) == "type" \in DOMAIN raw /\ raw["type"] \in RecognizedTypes

\* The ids of the messages of a recognized type, in the payload's order.
RecognizedIds(payload) ==
    LET ms == SelectSeq(PayloadMessages(payload), Recognized)
    IN  [i \in DOMAIN ms |-> ms[i]["id"]]

\* The ids marked as read, and those handed to the agent, for a request.
MarkedIds(r) ==
    LET es == Events(r, "mark_as_read") IN [i \in DOMAIN es |-> es[i].id]

DeliveredIds(r) ==
    LET es == Events(r, "handle_message") IN [i \in DOMAIN es |-> es[i].metadata["id"]]

IsPrefix(s, t) == Len(s) <= Len(t) /\ s = SubSeq(t, 1, Len(s))

\* The request was received by a channel of the meta provider with an app secret.
MetaRequest(r) ==
    /\ reqs[r] # NoRequest
    /\ Provider(reqs[r].config) = "meta"
    /\ "app_secret" \in DOMAIN reqs[r].config

SignatureCorrect(request) ==
    request.signature = Sign(request.config["app_secret"], request.payload)

\* C5: with the meta provider and an app secret, a request whose signature
\* is correct is answered "success" and its processing is scheduled exactly
\* once; a request whose signature is not is answered "not validated" and
\* nothing else is ever observed of it: no callback, no message normalized,
\* marked as read or handed to the agent.
C5_SignatureCheck ==
    \A r \in Requests : MetaRequest(r) =>
        IF SignatureCorrect(reqs[r])
        THEN /\ Events(r, "return") = <<ReturnEvent("success")>>
             /\ Events(r, "spawn_callback") = <<SpawnEvent>>
             /\ tasks[r] # NoTask
             /\ tasks[r].payload = reqs[r].payload
        ELSE /\ log[r] = <<ReturnEvent("not validated")>>
             /\ tasks[r] = NoTask

\* One request went through and was processed to its end, another was turned away.
C5_Witness ==
    \E r1 \in Requests, r2 \in Requests :
        /\ MetaRequest(r1) /\ SignatureCorrect(reqs[r1])
        /\ tasks[r1].pc = "done" /\ Len(DeliveredIds(r1)) > 0
        /\ MetaRequest(r2) /\ ~SignatureCorrect(reqs[r2])
        /\ reqs[r2].signature # NoSignature
        /\ log[r2] = <<ReturnEvent("not validated")>>

ProcessingEvents == {"warning", "mark_as_read", "handle_message", "exception"}

\* C6: the acknowledgment of a validated payload is returned before any of
\* its messages is marked as read or handed to the agent, and it has been
\* returned while the agent's handle_message is still running, however long
\* that lasts.
C6_AckBeforeProcessing ==
    \A r \in Requests : tasks[r] # NoTask =>
        \E i \in DOMAIN log[r] :
            /\ log[r][i] = ReturnEvent("success")
            /\ \A j \in EventPositions(r, ProcessingEvents) : i < j

\* The agent is at work on a message of the request, which was acknowledged.
C6_Witness ==
    \E r \in Requests :
        /\ tasks[r].pc = "agent"
        /\ Len(DeliveredIds(r)) = 1
        /\ ReturnEvent("success") \in {log[r][i] : i \in DOMAIN log[r]}

\* C7: when the agent raises on a message the exception is swallowed: the
\* callback does not fail, it goes on to the next message, and once it is
\* done every message of a recognized type was marked as read and handed to
\* the agent, those after the exception included.
C7_AgentExceptionSwallowed ==
    /\ [][\A r \in Requests : tasks[r].pc = "agent" /\ tasks'[r] # tasks[r] =>
            /\ tasks'[r].pc = "message"
            /\ tasks'[r].m = tasks[r].m + 1
            /\ tasks'[r].c = tasks[r].c /\ tasks'[r].e = tasks[r].e
            /\ IsPrefix(log[r], log'[r])]_vars
    /\ [](\A r \in Requests :
            (tasks[r].pc = "done" /\ Events(r, "exception") # <<>>) =>
                /\ MarkedIds(r) = RecognizedIds(reqs[r].payload)
                /\ DeliveredIds(r) = RecognizedIds(reqs[r].payload))

\* The agent raised on one message and a later one was handed to it.
C7_Witness ==
    \E r \in Requests :
        /\ tasks[r].pc = "done"
        /\ \E i \in EventPositions(r, {"exception"}) :
            \E j \in EventPositions(r, {"handle_message"}) : i < j

\* The raw message the callback is at.
CurrentRaw(t) ==
    ChangeMessages(t.payload["entry"][t.e]["changes"][t.c])[t.m]

\* The text a raw message of a recognized type stands for, by its type.
ExpectedText(raw) ==
    IF raw["type"] = "interactive"
    THEN raw["interactive"][raw["interactive"]["type"]]["id"]
    ELSE IF raw["type"] = "text" THEN raw["text"]["body"]
    ELSE IF raw["type"] = "button" THEN raw["button"]["text"]
    ELSE IF raw["type"] = "voice" THEN Marker("audio", raw["voice"]["id"])
    ELSE Marker(raw["type"], raw[raw["type"]]["id"])

\* C8: a raw message is normalized by its declared type, in the order
\* interactive, text, button, media: to the id under the interactive
\* sub-type key, to text.body, to button.text, or to the marker of its media
\* kind and id, voice standing as audio; so normalization never fails on a
\* message of one of these types, and the agent is handed that text.
C8_NormalizedByType ==
    \A r \in Requests :
        /\ tasks[r].pc = "agent" =>
                /\ tasks[r].text = ExpectedText(CurrentRaw(tasks[r]))
                /\ log[r][Len(log[r])].ev = "handle_message"
                /\ log[r][Len(log[r])].text = ExpectedText(CurrentRaw(tasks[r]))
        /\ (tasks[r].pc = "failed" /\ tasks[r].err = "KeyError") =>
                ~Recognized(CurrentRaw(tasks[r]))

\* The message the callback is at is one of no recognized type.
AtUnrecognized(r) ==
    /\ tasks[r].pc = "message"
    /\ tasks[r].m <= Len(ChangeMessages(tasks[r].payload["entry"][tasks[r].e]["changes"][tasks[r].c]))
    /\ ~Recognized(CurrentRaw(tasks[r]))

\* C9: a raw message of none of the recognized types is dropped: the step
\* on it raises nothing, marks nothing as read, hands nothing to the agent
\* (a warning is all that is observed) and moves on to the next message; a
\* callback that is done has dropped every such message of its payload.
C9_UnrecognizedDropped ==
    /\ [][\A r \in Requests : AtUnrecognized(r) /\ tasks'[r] # tasks[r] =>
            /\ tasks'[r] = [tasks[r] EXCEPT !.m = @ + 1]
            /\ log'[r] = Append(log[r], WarningEvent(CurrentRaw(tasks[r])))]_vars
    /\ [](\A r \in Requests : tasks[r].pc = "done" =>
            Len(Events(r, "warning"))
                = Len(PayloadMessages(reqs[r].payload)) - Len(RecognizedIds(reqs[r].payload)))

\* A message was dropped and a later one of the same batch reached the agent.
C9_Witness ==
    \E r \in Requests :
        \E i \in EventPositions(r, {"warning"}) :
            /\ "type" \in DOMAIN log[r][i].message
            /\ \E j \in EventPositions(r, {"handle_message"}) : i < j

\* C10: of a validated payload the messages of a recognized type are handed
\* to the agent at most once each and in order, all of them exactly once
\* when the callback is done; changes with no messages hand over nothing;
\* and the callback terminates, provided no step of it hangs.
C10_FanOut ==
    /\ [](\A r \in Requests : tasks[r] # NoTask =>
            /\ IsPrefix(DeliveredIds(r), RecognizedIds(reqs[r].payload))
            /\ tasks[r].pc = "done" =>
                    DeliveredIds(r) = RecognizedIds(reqs[r].payload))
    /\ \A r \in Requests :
            (tasks[r].pc # "none") ~> (tasks[r].pc \in {"done", "failed"})

\* Two entries, a change with no messages among their changes, were gone
\* through, and a payload with no message at all was.
C10_Witness ==
    \E r1 \in Requests, r2 \in Requests :
        /\ tasks[r1].pc = "done"
        /\ reqs[r1].payload = PayloadMedia
        /\ Len(DeliveredIds(r1)) = 4
        /\ tasks[r2].pc = "done"
        /\ reqs[r2].payload = PayloadEmpty
        /\ log[r2] = Spawned("success")

\* The raw messages of a recognized type of a payload, in order.
RecognizedMessages(payload) == SelectSeq(PayloadMessages(payload), Recognized)

\* C11: every message handed to the agent was marked as read just before,
\* under its own id: the event before each handle_message is the
\* mark_as_read of the id in that message's metadata, which is the id the
\* provider gave the message; so no message reaches the agent unmarked.
C11_MarkedBeforeDelivered ==
    \A r \in Requests :
        \A j \in EventPositions(r, {"handle_message"}) :
            /\ j > 1
            /\ log[r][j - 1].ev = "mark_as_read"
            /\ log[r][j - 1].id = log[r][j].metadata["id"]
            /\ LET k == Cardinality({i \in EventPositions(r, {"handle_message"}) : i <= j})
               IN  log[r][j - 1].id = RecognizedMessages(reqs[r].payload)[k]["id"]

\* Two messages of a request were handed to the agent.
C11_Witness ==
    \E r \in Requests :
        /\ Len(Events(r, "handle_message")) = 2
        /\ Len(Events(r, "mark_as_read")) = 2
        /\ tasks[r].pc = "agent"

(***************************************************************************)
(* Further claims about the repository.                                    *)
(***************************************************************************)
NameCollections == {"Intents", "Entities", "Forms", "Actions"}

\* The ids of the active records of a collection with the given bot and name.
ActiveNamed(coll, bot, name) ==
    {i \in DOMAIN db[coll] :
        db[coll][i].bot = bot /\ db[coll][i].name = name /\ db[coll][i].status}

\* C12: Intent, Entity, Form and Action records are deduplicated per bot:
\* after any sequence of save_domain, add_intent, add_entity, add_action and
\* add_training_example calls each of these collections holds at most one
\* active record per bot and name.
C12_OneActivePerName ==
    \A coll \in NameCollections :
        \A i \in DOMAIN db[coll] :
            Cardinality(ActiveNamed(coll, db[coll][i].bot, db[coll][i].name)) <= 1

(***************************************************************************)
(* Specification of the single-item operations on examples and entities:   *)
(* add_training_example of plain, blank and annotated examples, add_entity,*)
(* add_intent, save_domain and removals, in runs of MaxRepoOps calls.      *)
(***************************************************************************)
dest == Str("dest")

\* "[NY](city) [LA](dest)": two annotations.
ToNYLA ==
    <<"[", "NY", "]", "(", "city", ")", " ", "[", "LA", "]", "(", "dest", ")">>

\* "[NYC](city:New York)": an annotation that gives the entity a value other than its text.
NYCSynonym == <<"[", "NYC", "]", "(", "city", ":", "New York", ")">>

RichExamples ==
    {<<"hi">>, <<" ">>, <<"go", " ", "[", "NY", "]", "(", "city", ")">>, ToNYLA, NYCSynonym}

CategoricalSlot(name, values) ==
    [name |-> name, type_name |-> "categorical", initial_value |-> Unset,
     value_reset_delay |-> Unset, auto_fill |-> TRUE, values |-> values,
     min_value |-> Unset, max_value |-> Unset]

\* A domain with a slot named as an entity no bot has yet.
DomainSlots ==
    [intents |-> <<>>, entities |-> <<>>, form_names |-> <<>>, user_actions |-> <<>>,
     templates |-> <<>>,
     slots |-> <<CategoricalSlot(city, <<Str("NY"), Str("LA")>>)>>]

NextExamples ==
    \/ \E example \in RichExamples, bot \in Bots :
            nops < MaxRepoOps /\ add_training_example(example, greet, bot)
    \/ \E name \in EntityNames, bot \in Bots :
            nops < MaxRepoOps /\ add_entity(name, bot)
    \/ \E bot \in Bots :
            nops < MaxRepoOps /\ add_intent(greet, bot)
    \/ \E bot \in Bots :
            nops < MaxRepoOps /\ save_domain(DomainSlots, bot)
    \/ \E coll \in {"Intents", "Entities", "Slots", "TrainingExamples"} :
        \E id \in DOMAIN db[coll] :
            nops < MaxRepoOps /\ remove_document(coll, id)

SpecExamples == InitRepo /\ [][NextExamples]_vars

\* A step that is the second of two add_training_example calls, one right
\* after the other, with the same example, intent and bot, of which the
\* first one succeeded.
SecondAddExample ==
    /\ last.op = "add_training_example"
    /\ last.err = OK
    /\ nops' = nops + 1
    /\ last'.op = "add_training_example"
    /\ last'.bot = last.bot
    /\ last'.arg = last.arg

\* The ids of the training examples stored for an example string of a bot.
StoredFor(d, example, bot) ==
    {i \in DOMAIN d.TrainingExamples :
        /\ d.TrainingExamples[i].bot = bot
        /\ d.TrainingExamples[i].text = ExampleDoc(example, greet, bot).text}

\* C13: the second of two add_training_example calls with the same example
\* string and bot, inline entity markup or not, fails with 'Training Example
\* already exist!' and exactly one training example is stored for it.
C13_SecondExampleFails ==
    [][SecondAddExample =>
        /\ last'.err = "Training Example already exist!"
        /\ Cardinality(StoredFor(db', last.arg[1], last.bot)) = 1]_vars

\* The ids of the records of a collection with the given bot and name, of any status.
Named(d, coll, bot, name) ==
    {i \in DOMAIN d[coll] : d[coll][i].bot = bot /\ d[coll][i].name = name}

\* A step that is a successful add_training_example.
AddedExample ==
    /\ nops' = nops + 1
    /\ last'.op = "add_training_example"
    /\ last'.err = OK

\* The training example a successful add_training_example has just stored.
NewExample == db'.TrainingExamples[Len(db'.TrainingExamples)]

\* C14: after add_training_example(example, intent, bot) succeeds the bot
\* has an Intent record named intent, created only if there was none; it has
\* an Entity record and a Slot record for every entity annotated in the
\* example; the example is stored with its markup removed; and every stored
\* entity span has stored_text[start:end] = value.
C14_AddedExample ==
    [][AddedExample =>
        LET example == last'.arg[1]
            intent == last'.arg[2]
            bot == last'.bot
            annotated == find_entities_in_training_example(example)
        IN  /\ Named(db', "Intents", bot, intent) # {}
            /\ Named(db, "Intents", bot, intent) # {} => db'.Intents = db.Intents
            /\ Named(db, "Intents", bot, intent) = {} =>
                    Cardinality(Named(db', "Intents", bot, intent)) = 1
            /\ \A i \in DOMAIN annotated :
                    /\ Named(db', "Entities", bot, annotated[i].entity) # {}
                    /\ Named(db', "Slots", bot, annotated[i].entity) # {}
            /\ Len(db'.TrainingExamples) = Len(db.TrainingExamples) + 1
            /\ NewExample.bot = bot /\ NewExample.intent = intent
            /\ \A i \in DOMAIN NewExample.text : ~MatchAt(NewExample.text, i).found
            /\ Len(NewExample.entities) = Len(annotated)
            \* an annotation is five symbols around the text it annotates
            /\ Len(NewExample.text) = Len(example) - 5 * Len(annotated)
            /\ \A i \in DOMAIN NewExample.entities :
                    /\ NewExample.entities[i].entity = annotated[i].entity
                    /\ Slice(NewExample.text, NewExample.entities[i].start,
                             NewExample.entities[i].end) = NewExample.entities[i].value]_vars

\* The example with two annotations was added for a bot that had the intent.
C14_Witness ==
    /\ last.op = "add_training_example"
    /\ last.err = OK
    /\ last.arg[1] = ToNYLA
    /\ db.TrainingExamples[Len(db.TrainingExamples)].text = <<"NY", " ", "LA">>
    /\ Len(db.Intents) = 1
    /\ nops = 3

\* What the validators of the documents these calls save say of a record
\* they refuse.
ValidationErrors ==
    {"Invalid entity",
     "Training Example name and text cannot be empty or blank spaces",
     IntentsValidate(Intents(blank, "b1")),
     EntitiesValidate(Entities(blank, "b1"))}

\* A step that is an add_training_example or add_entity refused by a validator.
FailedValidation ==
    /\ nops' = nops + 1
    /\ last'.op \in {"add_training_example", "add_entity"}
    /\ last'.err \in ValidationErrors

\* C15: a validation failure is never partially applied: when
\* add_training_example or add_entity fails because a record does not
\* validate, the call has added no record to any collection.
C15_NoPartialWrite ==
    [][FailedValidation => db' = db]_vars

\* A step that is a successful add_entity.
AddedEntity ==
    /\ nops' = nops + 1
    /\ last'.op = "add_entity"
    /\ last'.err = OK

\* C16: after add_entity(name, bot) succeeds the bot has a Slot named name:
\* a text slot is created if and only if the bot had no slot of that name
\* before the call, and the slots there were are left as they were.
C16_CompanionSlot ==
    [][AddedEntity =>
        LET name == last'.arg
            bot == last'.bot
        IN  /\ Named(db', "Slots", bot, name) # {}
            /\ Named(db, "Slots", bot, name) = {} =>
                    db'.Slots = Append(db.Slots, Slots(name, "text", bot))
            /\ Named(db, "Slots", bot, name) # {} => db'.Slots = db.Slots
            /\ db'.Entities = Append(db.Entities, Entities(name, bot))]_vars

\* An entity was added for a bot that had a categorical slot of its name,
\* and one for a bot that had no slot.
C16_Witness ==
    /\ last.op = "add_entity"
    /\ last.err = OK
    /\ Len(db.Entities) = 2
    /\ Len(db.Slots) = 2
    /\ \E i \in Named(db, "Slots", last.bot, last.arg) : db.Slots[i].type = "categorical"
    /\ \E i \in DOMAIN db.Slots : db.Slots[i].type = "text"

(***************************************************************************)
(* Specification of removals: records are added one at a time and records  *)
(* are removed, by ids some record has and by ids none has, in runs of     *)
(* MaxOps calls.                                                           *)
(***************************************************************************)
NextRemove ==
    \/ \E text \in IntentNames, bot \in Bots :
            nops < MaxOps /\ add_intent(text, bot)
    \/ \E example \in Examples :
            nops < MaxOps /\ add_training_example(example, greet, "b1")
    \/ \E coll \in {"Intents", "TrainingExamples", "Slots", "SessionConfigs"} :
        \E id \in 1..(Len(db[coll]) + 1) :
            nops < MaxOps /\ remove_document(coll, id)

SpecRemove == InitRepo /\ [][NextRemove]_vars

\* A step that is a remove_document call.
Removal ==
    /\ nops' = nops + 1
    /\ last'.op = "remove_document"

\* C17: remove_document on an id that does not exist fails with 'Unable to
\* remove document' and leaves every record as it was; on an id that was
\* removed already it is an update like any other: it succeeds and the
\* record stays inactive.
C17_RemoveMissingOrRemoved ==
    [][Removal =>
        LET coll == last'.arg[1]
            id == last'.arg[2]
        IN  /\ id \notin DOMAIN db[coll] =>
                    /\ last'.err = "Unable to remove document"
                    /\ db' = db
                    /\ removed' = removed
            /\ (id \in DOMAIN db[coll] /\ ~db[coll][id].status) =>
                    /\ last'.err = OK
                    /\ db'[coll][id].status = FALSE
                    /\ db' = db]_vars

\* A record was removed twice, and a removal of an id no record has was refused.
C17_Witness ==
    /\ removals = 2
    /\ Cardinality(removed) = 1
    /\ last.op = "remove_document"
    /\ last.err = "Unable to remove document"
    /\ last.arg[2] = Len(db[last.arg[1]]) + 1
    /\ \E r \in removed : ~db[r[1]][r[2]].status

\* The record but for its status.
WithoutStatus(doc) == [k \in DOMAIN doc \ {"status"} |-> doc[k]]

\* C18: physical deletion never occurs: whatever the call, every record
\* there was is still there under its id, so the ids of a collection only
\* grow; and remove_document changes nothing of the record it is given but
\* its status, and nothing of any other record.
C18_NoPhysicalDeletion ==
    [][/\ \A coll \in Collections : \A id \in DOMAIN db[coll] :
            /\ id \in DOMAIN db'[coll]
            /\ WithoutStatus(db'[coll][id]) = WithoutStatus(db[coll][id])
       /\ Removal =>
            \A coll \in Collections :
                /\ DOMAIN db'[coll] = DOMAIN db[coll]
                /\ \A id \in DOMAIN db[coll] :
                        <<coll, id>> # last'.arg => db'[coll][id] = db[coll][id]]_vars

\* A record was removed from a collection that holds another one, as active as before.
C18_Witness ==
    \E r \in removed :
        /\ ~db[r[1]][r[2]].status
        /\ last.op = "remove_document" /\ last.err = OK /\ last.arg = r
        /\ \E id \in DOMAIN db[r[1]] : id > r[2] /\ db[r[1]][id].status

(***************************************************************************)
(* Specification of Slots.validate: a slot document is constructed with    *)
(* any name, type, bounds and values of the sets below, then validated.    *)
(* A LongField that is not set is Unset, one that is set to n is Some(n);  *)
(* 0.0 and 1.0 are 0 and 1.                                                *)
(***************************************************************************)
\* not v, of a number field: it is not set, or it is 0.
Falsy(v) == v = Unset \/ v = Some(0)

\* A validate that does not look at the values of a categorical slot.
SlotsValidateNoCategories(doc) ==
    IF check_empty_string(doc.name) \/ check_empty_string(Str(doc.type))
    THEN [err |-> "Slot name and type cannot be empty or blank spaces", doc |-> doc]
    ELSE [err |-> OK, doc |-> doc]

\* Slots.validate: the error it raises (OK when it returns) and the
\* document as it leaves it.  For a float slot the two messages are put
\* together in a local and in a ValidationError that is made and dropped:
\* nothing is raised, unless the comparison meets a bound that is not set.
SlotsValidate(doc) ==
    IF check_empty_string(doc.name) \/ check_empty_string(Str(doc.type))
    THEN [err |-> "Slot name and type cannot be empty or blank spaces", doc |-> doc]
    ELSE IF doc.type = "float"
    THEN LET d1 == IF Falsy(doc.min_value) /\ Falsy(doc.max_value)
                   THEN [doc EXCEPT !.min_value = Some(0), !.max_value = Some(1)]
                   ELSE doc
         IN  IF d1.min_value = Unset \/ d1.max_value = Unset
             THEN [err |-> "TypeError", doc |-> d1]
             ELSE [err |-> OK, doc |-> d1]
    ELSE IF doc.type = "categorical"
    THEN IF doc.values = <<>>
         THEN [err |-> "CategoricalSlot must have list of categories in values field",
               doc |-> doc]
         ELSE [err |-> OK, doc |-> doc]
    ELSE [err |-> OK, doc |-> doc]

\* The bounds of a slot run over -1..MaxSlotValue, or are not set.
MaxSlotValue == 2

SlotBounds == {Unset} \cup {Some(n) : n \in (0 - 1)..MaxSlotValue}

SlotValues == {<<>>, <<Str("NY")>>, <<Str("NY"), Str("LA")>>}

SlotCandidates ==
    {[Slots(name, type, "b1") EXCEPT !.min_value = min_value, !.max_value = max_value,
                                     !.values = values] :
        name \in EntityNames, type \in {"float", "categorical", "text"},
        min_value \in SlotBounds, max_value \in SlotBounds, values \in SlotValues}

InitSlots ==
    /\ RepoIdle
    /\ ChannelIdle
    /\ candidate \in SlotCandidates
    /\ verdict = "none"

slots_validate ==
    /\ verdict = "none"
    /\ verdict' = SlotsValidate(candidate).err
    /\ candidate' = SlotsValidate(candidate).doc
    /\ UNCHANGED <<repoVars, chanVars>>

NextSlots == slots_validate

SpecSlots == InitSlots /\ [][NextSlots]_vars

\* A step that is the validation of a slot of the given type.
SlotValidated(type) ==
    /\ verdict = "none"
    /\ verdict' # "none"
    /\ candidate.type = type

\* C19: a float slot that passes Slots.validate has min_value < max_value,
\* these being 0.0 and 1.0 when neither was set; a float slot with
\* min_value >= max_value is rejected.
C19_FloatBounds ==
    [][SlotValidated("float") =>
        /\ verdict' = OK =>
                /\ candidate'.min_value # Unset /\ candidate'.max_value # Unset
                /\ candidate'.min_value[1] < candidate'.max_value[1]
                /\ (candidate.min_value = Unset /\ candidate.max_value = Unset) =>
                        (candidate'.min_value = Some(0) /\ candidate'.max_value = Some(1))
        /\ (/\ candidate.min_value # Unset /\ candidate.max_value # Unset
            /\ candidate.min_value[1] >= candidate.max_value[1]) => verdict' # OK]_vars

NoCategories == "CategoricalSlot must have list of categories in values field"

ResponsesValidate(doc) ==
    IF doc.text = Unset /\ doc.custom = Unset
    THEN "Either Text or Custom response must be present!"
    ELSE OK

ResponseButton == [title |-> Str("yes"), payload |-> Str("/affirm")]

ResponseTexts ==
    {[text |-> text, image |-> image, channel |-> channel, buttons |-> buttons] :
        text \in {Str("hi"), blank}, image \in {Unset, Some(Str("img"))},
        channel \in {Unset, Some(Str("web"))}, buttons \in {<<>>, <<ResponseButton>>}}

ResponseCustoms == {[blocks |-> [type |-> "section"]], [blocks |-> [type |-> "divider"]]}

ResponseCandidates ==
    {Responses(name, text, custom, bot) :
        name \in {utter_greet, blank},
        text \in {Unset} \cup {Some(t) : t \in ResponseTexts},
        custom \in {Unset} \cup {Some(c) : c \in ResponseCustoms},
        bot \in Bots}

InitResponses ==
    /\ RepoIdle
    /\ ChannelIdle
    /\ candidate \in ResponseCandidates
    /\ verdict = "none"

responses_validate ==
    /\ verdict = "none"
    /\ verdict' = ResponsesValidate(candidate)
    /\ UNCHANGED <<candidate, repoVars, chanVars>>

NextResponses == responses_validate

SpecResponses == InitResponses /\ [][NextResponses]_vars

\* C21: a response passes Responses.validate only if exactly one of its
\* text and custom variants is present; one with neither and one with both
\* are rejected.
C21_ExactlyOneVariant ==
    verdict # "none" =>
        (verdict = OK <=> ((candidate.text = Unset) # (candidate.custom = Unset)))

(***************************************************************************)
(* Specification of Stories.validate: a story document is constructed with *)
(* a list of events, then validated.  An event of the list is a            *)
(* StoryEvents document (type, name), which is what __extract_story_events *)
(* stores, or an event of the dialogue library (type_name, name), which    *)
(* is what the isinstance tests of validate look for.                      *)
(***************************************************************************)
\* isinstance(event, UserUttered), isinstance(event, ActionExecuted)
IsUserUttered(event) == "type_name" \in DOMAIN event /\ event.type_name = "user"

IsActionExecuted(event) == "type_name" \in DOMAIN event /\ event.type_name = "action"

\* Stories.validate; events[0] of an empty list is an IndexError.
StoriesValidate(doc) ==
    IF check_empty_string(doc.block_name)
    THEN "Story path name cannot be empty or blank spaces"
    ELSE IF doc.events = <<>>
    THEN "IndexError"
    ELSE IF IsUserUttered(doc.events[1])
    THEN "Stories must start with intent"
    ELSE IF IsActionExecuted(doc.events[Len(doc.events)])
    THEN "Stories must end with action"
    ELSE OK

\* A story has at most MaxEvents events.
MaxEvents == 3

StoredEvents == {StoryEvents("user", greet), StoryEvents("action", utter_greet)}

LibraryEvents == {[type_name |-> "user", name |-> greet],
                  [type_name |-> "action", name |-> utter_greet]}

EventLists(S) == UNION {[1..n -> S] : n \in 0..MaxEvents}

StoryCandidates ==
    {Stories(block_name, events, bot) :
        block_name \in {Story1.block_name, blank},
        events \in EventLists(StoredEvents) \cup EventLists(LibraryEvents),
        bot \in Bots}

InitStories ==
    /\ RepoIdle
    /\ ChannelIdle
    /\ candidate \in StoryCandidates
    /\ verdict = "none"

stories_validate ==
    /\ verdict = "none"
    /\ verdict' = StoriesValidate(candidate)
    /\ UNCHANGED <<candidate, repoVars, chanVars>>

NextStories == stories_validate

SpecStories == InitStories /\ [][NextStories]_vars

\* The type of an event of either kind.
EventType(event) == IF "type" \in DOMAIN event THEN event.type ELSE event.type_name

\* The events are as __extract_story_events stores them.
StoredStory(doc) == \A i \in DOMAIN doc.events : "type" \in DOMAIN doc.events[i]

\* C22: a story with a non-blank block_name passes Stories.validate only if
\* its first stored event is a user event and its last stored event is an
\* action event; one that starts with an action or ends with a user event
\* is rejected.
C22_StartsWithIntentEndsWithAction ==
    (/\ verdict # "none"
     /\ ~check_empty_string(candidate.block_name)
     /\ StoredStory(candidate)) =>
        /\ verdict = OK =>
                /\ candidate.events # <<>>
                /\ EventType(candidate.events[1]) = "user"
                /\ EventType(candidate.events[Len(candidate.events)]) = "action"
        /\ (/\ candidate.events # <<>>
            /\ \/ EventType(candidate.events[1]) = "action"
               \/ EventType(candidate.events[Len(candidate.events)]) = "user") =>
                verdict # OK

(***************************************************************************)
(* Specification of the session config: domains that declare a session     *)
(* config are saved and loaded.                                            *)
(***************************************************************************)
\* domain.session_config of a domain: expiration time in minutes and
\* whether the slots are carried over.
SessionConfig(session_expiration_time, carry_over_slots) ==
    [session_expiration_time |-> session_expiration_time,
     carry_over_slots |-> carry_over_slots]

DefaultSession == SessionConfig(DefaultSessionExpirationTime, DefaultCarryOverSlots)

SessionDomains ==
    {Domain1 @@ [session_config |-> c] :
        c \in {DefaultSession, SessionConfig(30, FALSE), SessionConfig(0, TRUE)}}

NextSession ==
    \/ \E domain \in SessionDomains, bot \in Bots :
            nops < MaxRepoOps /\ save_domain(domain, bot)
    \/ \E bot \in Bots :
            nops < MaxRepoOps /\ add_intent(greet, bot)
    \/ \E coll \in {"Intents", "SessionConfigs"} : \E id \in 1..(Len(db[coll]) + 1) :
            nops < MaxRepoOps /\ remove_document(coll, id)

SpecSession == InitRepo /\ [][NextSession]_vars

\* A step that is a save_domain that returns.
SavedDomain ==
    /\ nops' = nops + 1
    /\ last'.op = "save_domain"
    /\ last'.err = OK

\* C23: after save_domain(domain, bot), load_domain(bot) returns the
\* session_expiration_time and carry_over_slots of the saved domain; the
\* defaults are what it returns for a bot only as long as no domain was
\* saved for it.
C23_SessionConfigRoundTrip ==
    [][SavedDomain =>
        LET loaded == LoadDomain(db', last'.bot).session_config
            given == last'.arg.session_config
        IN  /\ loaded.session_expiration_time = given.session_expiration_time
            /\ loaded.carry_over_slots = given.carry_over_slots]_vars

(***************************************************************************)
(* Specification of the pipeline configuration: projects are saved from    *)
(* their path and the configuration of a bot is loaded.  A path stands for *)
(* what its files read as: the training data, the domain (valid tells      *)
(* whether Domain.from_file accepts it), the story steps and the config.   *)
(***************************************************************************)
\* Configs._from_son(config), with bot set; language defaults to "en".
Configs(config, bot) ==
    [language |-> IF "language" \in DOMAIN config THEN config.language ELSE "en",
     pipeline |-> config.pipeline,
     policies |-> config.policies,
     bot |-> bot,
     status |-> TRUE]

\* __save_config: the config is inserted, whatever the bot has already.
SaveConfig(d, config, bot) == Insert(d, "Configs", <<Configs(config, bot)>>)

\* MongoProcessor.save_from_path: the files are read, then the training
\* data, the domain, the stories and the config are saved in this order;
\* an exception ends the call with what was saved before it.
SaveFromPath(path, bot) ==
    IF ~path.valid
    THEN [store |-> db, err |-> "Failed to validate yaml file."]
    ELSE LET nlu == SaveNlu(path.nlu, bot, NoFailure)
             domain == SaveDomainIn(nlu.store, path.domain, bot)
         IN  IF domain.err # OK
             THEN [store |-> domain.store, err |-> domain.err]
             ELSE [store |-> SaveConfig(SaveStoriesIn(domain.store, path.story_steps, bot),
                                        path.config, bot),
                   err |-> OK]

save_from_path(path, bot) ==
    /\ db' = SaveFromPath(path, bot).store
    /\ Returns("save_from_path", bot, path, SaveFromPath(path, bot).err)

\* The config read from ./template/config.yml (the file is not part of the
\* sources; only that it is a config matters here).
TemplateConfig ==
    [language |-> "en", pipeline |-> <<[name |-> "template"]>>, policies |-> <<>>]

\* The Configs records of the bot, active or not.
ConfigsOf(d, bot) ==
    LET P(x) == x.bot = bot
    IN  IdsFrom(P, d.Configs, 1)

\* fetch_configs: Configs.objects.get(bot=bot) gives the one record of the
\* bot, the template when there is none (DoesNotExist is caught), and
\* raises MultipleObjectsReturned when there are several.
FetchConfigsErr(d, bot) ==
    IF Len(ConfigsOf(d, bot)) > 1 THEN "MultipleObjectsReturned" ELSE OK

FetchConfigs(d, bot) ==
    IF ConfigsOf(d, bot) = <<>>
    THEN Configs(TemplateConfig, None)
    ELSE d.Configs[ConfigsOf(d, bot)[1]]

\* MongoProcessor.load_config, when fetch_configs returns.
LoadConfig(d, bot) ==
    [language |-> FetchConfigs(d, bot).language,
     pipeline |-> FetchConfigs(d, bot).pipeline,
     policies |-> FetchConfigs(d, bot).policies]

Config1 ==
    [language |-> "en", pipeline |-> <<[name |-> "WhitespaceTokenizer"]>>,
     policies |-> <<[name |-> "MemoizationPolicy"]>>]

Config2 ==
    [pipeline |-> <<[name |-> "SpacyNLP"]>>, policies |-> <<[name |-> "FallbackPolicy"]>>]

\* A domain with a response whose buttons cannot be read.
DomainButton ==
    [Domain1 EXCEPT !.templates =
        << <<utter_greet, <<[text |-> Str("Hello"), button |-> <<>>]>> >> >>]

Paths ==
    {[nlu |-> Nlu1, domain |-> Domain1, story_steps |-> <<Story1>>,
      config |-> Config1, valid |-> TRUE],
     [nlu |-> NluEmpty, domain |-> DomainSlots, story_steps |-> <<>>,
      config |-> Config2, valid |-> TRUE],
     [nlu |-> NluEmpty, domain |-> DomainButton, story_steps |-> <<>>,
      config |-> Config1, valid |-> TRUE],
     [nlu |-> NluEmpty, domain |-> DomainSlots, story_steps |-> <<>>,
      config |-> Config1, valid |-> FALSE]}

NextConfig ==
    \/ \E path \in Paths, bot \in Bots :
            nops < MaxRepoOps /\ save_from_path(path, bot)
    \/ \E id \in 1..(Len(db.Configs) + 1) :
            nops < MaxRepoOps /\ remove_document("Configs", id)

SpecConfig == InitRepo /\ [][NextConfig]_vars

\* C24: after any sequence of save_from_path calls there is at most one
\* Configs record per bot, and load_config(bot) returns its language,
\* pipeline and policies without error.
C24_OneConfigPerBot ==
    \A bot \in Bots :
        /\ Len(ConfigsOf(db, bot)) <= 1
        /\ FetchConfigsErr(db, bot) = OK
        /\ ConfigsOf(db, bot) # <<>> =>
                LET config == db.Configs[ConfigsOf(db, bot)[1]]
                IN  LoadConfig(db, bot) = [language |-> config.language,
                                           pipeline |-> config.pipeline,
                                           policies |-> config.policies]

(***************************************************************************)
(* Specification of concurrent add_intent, add_entity and add_action       *)
(* calls: each caller makes one call, statement by statement, and the      *)
(* statements of the callers interleave.  The existence query and the      *)
(* save are two round trips to the store, and no lock is taken.            *)
(***************************************************************************)
AddOps == {"add_intent", "add_entity", "add_action"}

AddCollection(op) ==
    IF op = "add_intent" THEN "Intents"
    ELSE IF op = "add_entity" THEN "Entities"
    ELSE "Actions"

\* exp_message of the call's __isExist
ExistMessage(op) == IF op = "add_intent" THEN "Intent already exist!" ELSE "Entity already exist!"

\* What save() of the call's document raises: a save that looks for the
\* name once more, and the save of the code, which validates only.
SaveErrRechecked(d, op, bot, name) ==
    IF IsExist(d, AddCollection(op), bot, "name", name) THEN ExistMessage(op)
    ELSE IF op = "add_intent" THEN IntentsValidate(Intents(name, bot))
    ELSE IF op = "add_entity" THEN EntitiesValidate(Entities(name, bot))
    ELSE ActionsValidate(Actions(name, bot))

SaveErr(d, op, bot, name) ==
    IF op = "add_intent" THEN IntentsValidate(Intents(name, bot))
    ELSE IF op = "add_entity" THEN EntitiesValidate(Entities(name, bot))
    ELSE ActionsValidate(Actions(name, bot))

\* The first statement: __isExist raises when the bot has the name.
add_check(c, op, bot, name) ==
    /\ calls[c].pc = "idle"
    /\ calls' = [calls EXCEPT ![c] =
                    IF IsExist(db, AddCollection(op), bot, "name", name)
                    THEN [pc |-> "done", op |-> op, bot |-> bot, name |-> name,
                          err |-> ExistMessage(op)]
                    ELSE [pc |-> "checked", op |-> op, bot |-> bot, name |-> name,
                          err |-> OK]]
    /\ UNCHANGED <<db, last, nops, removed, removals, saved, validateVars, chanVars>>

\* The second statement: the document is saved; add_entity goes on.
add_save(c) ==
    /\ calls[c].pc = "checked"
    /\ db' = IF SaveErr(db, calls[c].op, calls[c].bot, calls[c].name) = OK
             THEN Append1(AddCollection(calls[c].op), NameDoc(calls[c].name, calls[c].bot))
             ELSE db
    /\ calls' = [calls EXCEPT
                    ![c].err = SaveErr(db, calls[c].op, calls[c].bot, calls[c].name),
                    ![c].pc = IF /\ calls[c].op = "add_entity"
                                 /\ SaveErr(db, calls[c].op, calls[c].bot, calls[c].name) = OK
                              THEN "saved"
                              ELSE "done"]
    /\ UNCHANGED <<last, nops, removed, removals, saved, validateVars, chanVars>>

\* add_entity: the query for a slot of the name.
add_slot_check(c) ==
    /\ calls[c].pc = "saved"
    /\ calls' = [calls EXCEPT
                    ![c].pc = IF IsExist(db, "Slots", calls[c].bot, "name", calls[c].name)
                              THEN "done"
                              ELSE "slot_checked"]
    /\ UNCHANGED <<db, last, nops, removed, removals, saved, validateVars, chanVars>>

\* add_entity: the text slot is saved.
add_slot_save(c) ==
    /\ calls[c].pc = "slot_checked"
    /\ db' = Append1("Slots", Slots(calls[c].name, "text", calls[c].bot))
    /\ calls' = [calls EXCEPT ![c].pc = "done"]
    /\ UNCHANGED <<last, nops, removed, removals, saved, validateVars, chanVars>>

NextRace ==
    \/ \E c \in Callers, op \in AddOps, bot \in Bots, name \in IntentNames :
            add_check(c, op, bot, name)
    \/ \E c \in Callers : add_save(c)
    \/ \E c \in Callers : add_slot_check(c)
    \/ \E c \in Callers : add_slot_save(c)

SpecRace == InitRepo /\ [][NextRace]_vars

\* The active records of the collection with the bot and the name.
ActiveRecords(d, coll, bot, name) ==
    {i \in DOMAIN d[coll] : d[coll][i].bot = bot /\ d[coll][i].name = name /\ d[coll][i].status}

\* A step that is the save of caller c, the bot having got the name since
\* the caller looked for it.
StaleSave(c) ==
    /\ calls[c].pc = "checked"
    /\ calls'[c].pc # "checked"
    /\ ActiveRecords(db, AddCollection(calls[c].op), calls[c].bot, calls[c].name) # {}

\* C25: the existence check and the insert of add_intent, add_entity and
\* add_action are not atomic: a caller that passed the check inserts its
\* record and returns without an 'already exists' error even when another
\* caller has inserted the same (bot, name) in between, which leaves two
\* active records for the (bot, name).
C25_CheckThenInsert ==
    [][\A c \in Callers : StaleSave(c) =>
        LET coll == AddCollection(calls[c].op)
        IN  /\ calls'[c].err = OK
            /\ Len(db'[coll]) = Len(db[coll]) + 1
            /\ Cardinality(ActiveRecords(db', coll, calls[c].bot, calls[c].name)) >= 2]_vars

C25_Witness ==
    /\ calls["c1"].pc = "done"
    /\ calls["c2"].pc = "done"
    /\ calls["c1"].err = OK
    /\ calls["c2"].err = OK
    /\ calls["c1"].op = "add_intent"
    /\ calls["c2"].op = "add_intent"
    /\ calls["c1"].bot = calls["c2"].bot
    /\ calls["c1"].name = calls["c2"].name
    /\ Cardinality(ActiveRecords(db, "Intents", calls["c1"].bot, calls["c1"].name)) = 2

(***************************************************************************)
(* Specification of a channel object that is kept: requests are handled by *)
(* a channel object of their own or by the object of request r1, and the   *)
(* callbacks run on one event loop.  A callback keeps the loop until it    *)
(* awaits the agent (mark_as_read and the message handling do not          *)
(* suspend), and a callback or request handler runs only when no other     *)
(* callback has the loop.                                                  *)
(***************************************************************************)
PayloadOther ==
    [entry |-> <<[changes |-> <<Change("p2", <<RawText("m6", "hey"),
                                               RawText("m7", "you")>>)>>]>>]

SharedInputs ==
    {Request("b1", MetaConfig, payload, Sign(MetaConfig.app_secret, payload)) :
        payload \in {PayloadMixed, PayloadOther}}
    \cup {Request("b1", MetaConfig, payload, Sign(MetaConfig.app_secret, payload))
            @@ [channel |-> "r1"] :
        payload \in {PayloadMixed, PayloadOther}}

\* The callback was spawned and has not run yet.
NotStarted(t) == t.pc = "change" /\ t.e = 1 /\ t.c = 1

\* The callback has the loop: it has started and neither awaits the agent
\* nor has ended.
OnLoop(t) == t.pc \in {"change", "message"} /\ ~NotStarted(t)

LoopFree(r) == \A r2 \in Requests \ {r} : ~OnLoop(tasks[r2])

NextShared ==
    \/ \E r \in Requests, request \in SharedInputs :
            (\A r2 \in Requests : ~OnLoop(tasks[r2])) /\ handle_payload(r, request)
    \/ \E r \in Requests : LoopFree(r) /\ handle_meta_payload(r)
    \/ \E r \in Requests, marked \in BOOLEAN : LoopFree(r) /\ message(r, marked)
    \/ \E r \in Requests : LoopFree(r) /\ agent_returns(r)
    \/ \E r \in Requests : LoopFree(r) /\ agent_raises(r)

SpecShared == InitChannel /\ [][NextShared]_vars

\* The phone_number_id of the changes of the payload that hold a message of
\* the id.
PhonesOf(payload, id) ==
    {payload["entry"][e]["changes"][c]["value"]["metadata"]["phone_number_id"] :
        <<e, c>> \in {ec \in UNION {{<<e, c>> : c \in DOMAIN payload["entry"][e]["changes"]} :
                                        e \in DOMAIN payload["entry"]} :
                        LET change == payload["entry"][ec[1]]["changes"][ec[2]]
                        IN  /\ "value" \in DOMAIN change
                            /\ "messages" \in DOMAIN change["value"]
                            /\ \E m \in DOMAIN change["value"]["messages"] :
                                    change["value"]["messages"][m]["id"] = id}}

\* The callback of r is the only one that runs on its channel object.
OwnChannel(r) ==
    /\ tasks[r].pc # "none"
    /\ \A r2 \in Requests \ {r} : tasks[r2].pc # "none" => tasks[r2].self # tasks[r].self

\* The marks of r made through the client of a change that does not hold
\* the message.
ForeignMarks(r) ==
    {i \in DOMAIN log[r] :
        /\ log[r][i].ev = "mark_as_read"
        /\ log[r][i].client.from_phone_number_id \notin PhonesOf(reqs[r].payload, log[r][i].id)}

\* C26: within a dispatch task that has its channel object to itself every
\* message is marked as read (and the output channel handed to the agent is
\* built) with the client of the phone_number_id of the change that holds
\* the message; with two batches on one channel object a message of one
\* batch can be handled with the client the other batch set (C26_Witness).
C26_ClientOfOwnChange ==
    \A r \in Requests : OwnChannel(r) => ForeignMarks(r) = {}

C26_Witness ==
    /\ tasks["r1"].pc # "none"
    /\ tasks["r2"].pc # "none"
    /\ tasks["r1"].self = tasks["r2"].self
    /\ \E r \in Requests : \E i \in ForeignMarks(r) :
            log[r][i].client.from_phone_number_id
                \in {"p1", "p2"} \ PhonesOf(reqs[r].payload, log[r][i].id)

(***************************************************************************)
(* Specification of WhatsappBot.send_custom_json: a reply of the agent is  *)
(* sent to a recipient, under a configured list of types.  A reply is a    *)
(* dict or a list, as the signature says; the converters and the type list *)
(* are not part of the sources: the converter of a type is modelled by its *)
(* name, the type list as a configured set.                                *)
(***************************************************************************)
DictReply(value) == [kind |-> "dict", value |-> value]

ListReply(items) == [kind |-> "list", value |-> [items |-> items]]

\* str(json_message)
Repr(json_message) == <<"str", json_message>>

\* whatsapp_client.send(payload, recipient_id, messaging_type)
ClientSend(payload, recipient_id, messaging_type) ==
    [payload |-> payload, recipient_id |-> recipient_id, messaging_type |-> messaging_type]

\* content_type.get(messagetype)
ContentType(messagetype) ==
    IF messagetype \in {"link", "video"} THEN "text"
    ELSE IF messagetype = "image" THEN "image"
    ELSE IF messagetype \in {"button", "dropdown"} THEN "interactive"
    ELSE None

\* ConverterFactory.getConcreteInstance(messagetype, channel).messageConverter(message)
MessageConverter(messagetype, channel, data) ==
    [converter |-> <<messagetype, channel>>, message |-> data]

\* WhatsappBot.send_custom_json: what it hands to the client's send and the
\* exception that ends it (a list has no get).
SendCustomJson(recipient_id, json_message, type_list) ==
    IF json_message.kind # "dict"
    THEN [err |-> "AttributeError", sends |-> <<>>]
    ELSE LET data == Get(json_message.value, "data", None)
             messagetype == Get(json_message.value, "type", None)
         IN  IF messagetype # None /\ messagetype \in type_list
             THEN [err |-> OK,
                   sends |-> <<ClientSend(MessageConverter(messagetype, "whatsapp", data),
                                          recipient_id, ContentType(messagetype))>>]
             ELSE [err |-> OK,
                   sends |-> <<ClientSend([preview_url |-> TRUE, body |-> Repr(json_message)],
                                          recipient_id, "text")>>]

ReplyTypes == {"link", "video", "image", "button", "dropdown", "audio", "carousel"}

TypeLists == {{"link", "video", "image", "button", "dropdown", "audio"}, {"link", "image"}}

Replies ==
    {DictReply([type |-> type, data |-> "d1"]) : type \in ReplyTypes}
    \cup {DictReply([type |-> type]) : type \in ReplyTypes}
    \cup {DictReply([data |-> "d1"]), DictReply([text |-> "hello"])}
    \cup {ListReply(<<[type |-> "link", data |-> "d1"]>>), ListReply(<<>>)}

InitCustomJson ==
    /\ RepoIdle
    /\ ChannelIdle
    /\ candidate \in {[recipient_id |-> recipient_id, json_message |-> json_message,
                       type_list |-> type_list] :
                        recipient_id \in {"u1", "u2"}, json_message \in Replies,
                        type_list \in TypeLists}
    /\ verdict = "none"

send_custom_json ==
    /\ verdict = "none"
    /\ verdict' = SendCustomJson(candidate.recipient_id, candidate.json_message,
                                 candidate.type_list).err
    /\ sent' = sent \o SendCustomJson(candidate.recipient_id, candidate.json_message,
                                      candidate.type_list).sends
    /\ UNCHANGED <<candidate, reqs, tasks, channels, log, repoVars>>

NextCustomJson == send_custom_json

SpecCustomJson == InitCustomJson /\ [][NextCustomJson]_vars

\* The declared type of a reply, None when it declares none.
DeclaredType(json_message) ==
    IF json_message.kind = "dict" /\ "type" \in DOMAIN json_message.value
    THEN json_message.value["type"]
    ELSE None

\* C27: send_custom_json issues exactly one send per reply: for a declared
\* type of the configured list, the payload of the converter of (type,
\* whatsapp) with the category of the type (link, video: text; image: image;
\* button, dropdown: interactive); for an absent or unrecognized type, the
\* string form of the whole reply as plain text.
C27_OneSendPerReply ==
    verdict # "none" =>
        LET type == DeclaredType(candidate.json_message)
        IN  /\ Len(sent) = 1
            /\ sent[1].recipient_id = candidate.recipient_id
            /\ type \in candidate.type_list =>
                    /\ sent[1].payload.converter = <<type, "whatsapp">>
                    /\ type \in {"link", "video"} => sent[1].messaging_type = "text"
                    /\ type = "image" => sent[1].messaging_type = "image"
                    /\ type \in {"button", "dropdown"} => sent[1].messaging_type = "interactive"
            /\ type \notin candidate.type_list =>
                    /\ sent[1].payload.body = Repr(candidate.json_message)
                    /\ sent[1].messaging_type = "text"

(***************************************************************************)
(* Claims about the scope of a bot.                                        *)
(***************************************************************************)
\* What the loads and the lists return for a bot, from store d.
BotView(d, bot) ==
    [nlu |-> LoadNlu(d, bot),
     domain |-> LoadDomain(d, bot),
     stories |-> LoadStories(d, bot),
     intents |-> GetIntents(d, bot),
     entities |-> DocumentList(d, "Entities", bot, "name"),
     actions |-> DocumentList(d, "Actions", bot, "name")]

\* A step that is a save or an add call.
SaveOrAdd ==
    /\ nops' = nops + 1
    /\ last'.op \in {"save_nlu", "save_domain", "save_stories", "add_intent",
                     "add_entity", "add_action", "add_training_example"}

\* The collection an 'already exist' message of the call speaks of.
ExistCollection(call) ==
    IF call.op = "add_intent" THEN "Intents"
    ELSE IF call.op = "add_entity" THEN "Entities"
    ELSE IF call.op = "add_action" THEN "Actions"
    ELSE "TrainingExamples"

ExistField(call) == IF call.op = "add_training_example" THEN "text" ELSE "name"

ExistValue(call) == IF call.op = "add_training_example" THEN call.arg[1] ELSE call.arg

\* C28: records are scoped by bot: a save_nlu, save_domain, save_stories or
\* add_* call for a bot leaves what load_nlu, load_domain, load_stories,
\* get_intents, get_entities and get_actions return for every other bot as
\* it was, and a call fails with an 'already exist' error only when the
\* bot of the call has a record of the name: the records of another bot
\* never cause it.
C28_BotScope ==
    [][SaveOrAdd =>
        /\ \A bot \in Bots \ {last'.bot} : BotView(db', bot) = BotView(db, bot)
        /\ last'.err \in {"Intent already exist!", "Entity already exist!",
                          "Training Example already exist!"} =>
                \E i \in DOMAIN db[ExistCollection(last')] :
                    /\ db[ExistCollection(last')][i].bot = last'.bot
                    /\ db[ExistCollection(last')][i][ExistField(last')] = ExistValue(last')]_vars

C28_Witness ==
    /\ last.op = "add_intent"
    /\ last.err = OK
    /\ last.bot = "b2"
    /\ \E i \in DOMAIN db.Intents :
            /\ db.Intents[i].bot = "b1"
            /\ db.Intents[i].name = last.arg
            /\ db.Intents[i].status
    /\ LoadNlu(db, "b1").training_examples # <<>>
    /\ LoadNlu(db, "b2").training_examples = <<>>

(***************************************************************************)
(* Specification of save_nlu under failures of the store: the insert of    *)
(* any of the four collections may fail, with none, some or all of its     *)
(* documents written.                                                      *)
(***************************************************************************)
\* The failing insert has written at most MaxKept documents.
MaxKept == 2

StoreFailures ==
    {NoFailure} \cup {Failure(batch, kept) : batch \in 1..4, kept \in 0..MaxKept}

NextNluFailure ==
    \/ \E fail \in StoreFailures :
            nops < MaxRepoOps /\ save_nlu(Nlu2, "b1", fail)
    \/ \E id \in DOMAIN db.LookupTables :
            nops < MaxRepoOps /\ remove_document("LookupTables", id)

SpecNluFailure == InitRepo /\ [][NextNluFailure]_vars

\* A step that is a save_nlu that fails.
FailedSaveNlu ==
    /\ nops' = nops + 1
    /\ last'.op = "save_nlu"
    /\ last'.err # OK

\* C29: save_nlu is atomic per collection but not across collections: when
\* the insert of one collection fails, the collections before it in the
\* order training examples, synonyms, lookup tables, regex features have
\* got their records, the failing collection has got none and the later
\* ones were not attempted.
C29_AtomicPerCollection ==
    [][FailedSaveNlu =>
        LET batches == NluBatches(last'.arg, last'.bot)
        IN  \E k \in DOMAIN batches :
                \A j \in DOMAIN batches :
                    db'[batches[j][1]] =
                        IF j < k THEN db[batches[j][1]] \o batches[j][2]
                        ELSE db[batches[j][1]]]_vars

\* ---------------------------------------------------------------------------
\* A failure of mark_as_read or of the normalization inside a batch
\* (whatsapp.py, message and _handle_user_message).

\* The messages of the batch that come after the one the callback is at: the
\* rest of its change, the later changes of its entry, the later entries.
LaterMessages(t) ==
    LET entry == t.payload["entry"]
        changes == entry[t.e]["changes"]
        here == ChangeMessages(changes[t.c])
    IN  SubSeq(here, t.m + 1, Len(here))
        \o Concat([j \in 1..(Len(changes) - t.c) |-> ChangeMessages(changes[t.c + j])])
        \o Concat([i \in 1..(Len(entry) - t.e) |->
              Concat([j \in DOMAIN entry[t.e + i]["changes"] |->
                  ChangeMessages(entry[t.e + i]["changes"][j])])])

\* The callback stopped on a message whose mark_as_read or normalization raised.
FailedOnMessage(r) ==
    /\ tasks[r].pc = "failed"
    /\ tasks[r].err # "agent"

\* C30: an exception of mark_as_read or of the normalization of one message
\* leaves the other messages of the batch alone: the callback never stops on
\* such an exception with a message of a recognized type still to come, so
\* every remaining message is normalized and handed to the agent.
C30_FailureIsolated ==
    \A r \in Requests : FailedOnMessage(r) =>
        SelectSeq(LaterMessages(tasks[r]), Recognized) = <<>>

\* ---------------------------------------------------------------------------
\* Adding a name again after its record was removed (processor.py, __isExist,
\* add_intent, add_entity, add_action, remove_document).

\* A step that is add_intent, add_entity or add_action of a name whose records
\* of the bot were all removed by remove_document.
AddOfRemoved ==
    /\ nops' = nops + 1
    /\ last'.op \in AddOps
    /\ Named(db, AddCollection(last'.op), last'.bot, last'.arg) # {}
    /\ ActiveRecords(db, AddCollection(last'.op), last'.bot, last'.arg) = {}

\* The names load_domain reports for the collection an add writes.
LoadedNames(d, op, bot) ==
    IF op = "add_intent" THEN LoadDomain(d, bot).intents
    ELSE IF op = "add_entity" THEN LoadDomain(d, bot).entities
    ELSE LoadDomain(d, bot).actions

\* C31: uniqueness is checked against the active records only: add_intent,
\* add_entity or add_action of a name whose only records of the bot were
\* soft-deleted succeeds and inserts a new active record, which load_domain
\* reports.
C31_AddAfterSoftDelete ==
    [][AddOfRemoved =>
        /\ last'.err = OK
        /\ ActiveRecords(db', AddCollection(last'.op), last'.bot, last'.arg) # {}
        /\ \E i \in DOMAIN LoadedNames(db', last'.op, last'.bot) :
                LoadedNames(db', last'.op, last'.bot)[i] = last'.arg]_vars

\* ---------------------------------------------------------------------------
\* The content of the regex features load_nlu returns (processor.py,
\* __extract_regex_features and fetch_regex_features).

\* C32: regex features round-trip in content: each regex feature saved by
\* save_nlu as {name, pattern} is returned by load_nlu, none of them removed
\* since, as a feature with the same name and the same pattern under the
\* same keys.
C32_RegexRoundTrip ==
    \A b \in Bots :
        (saved[b].state = "saved" /\ RemovedCount("RegexFeatures", b) = 0) =>
            LET given == saved[b].nlu.regex_features
                out == load_nlu(b).regex_features
            IN  /\ Len(out) = Len(given)
                /\ \A i \in DOMAIN given :
                    /\ DOMAIN out[i] = {"name", "pattern"}
                    /\ out[i].name = given[i].name
                    /\ out[i].pattern = given[i].pattern

\* ---------------------------------------------------------------------------
\* The messages of one delivery are handled one after another (whatsapp.py,
\* __handle_meta_payload and _handle_user_message).

\* The id of the message handed to the agent last.
LastDelivered(r) == DeliveredIds(r)[Len(DeliveredIds(r))]

\* C33: within one delivery the messages are handled one after another in
\* the payload's order: a step that marks a message as read and hands it to
\* the agent is taken while the agent is at work on no earlier message of
\* the delivery, it handles one message, the next of the payload's messages
\* of a recognized type, and it leaves the callback waiting for the agent.
C33_OneAfterAnother ==
    [][\A r \in Requests :
        Len(DeliveredIds(r))' > Len(DeliveredIds(r)) =>
            /\ tasks[r].pc = "message"
            /\ tasks'[r].pc = "agent"
            /\ Len(DeliveredIds(r))' = Len(DeliveredIds(r)) + 1
            /\ Len(DeliveredIds(r)) < Len(RecognizedIds(reqs[r].payload))
            /\ LastDelivered(r)' = RecognizedIds(reqs[r].payload)[Len(DeliveredIds(r)) + 1]
            /\ MarkedIds(r)' = DeliveredIds(r)']_vars

\* The agent raised on the first message of a delivery, returned on the
\* second, and is at work on the third, of a later entry.
C33_Witness ==
    \E r \in Requests :
        /\ tasks[r].pc = "agent"
        /\ tasks[r].e = 2
        /\ Len(DeliveredIds(r)) = 3
        /\ Len(Events(r, "exception")) = 1

\* ---------------------------------------------------------------------------
\* The lists of a bot's names and the domain loaded for it (processor.py,
\* get_intents, get_entities, get_actions, fetch_intents).

\* The list get_intents, get_entities or get_actions returns for a collection.
GetList(coll, bot) ==
    IF coll = "Intents" THEN get_intents(bot)
    ELSE IF coll = "Entities" THEN get_entities(bot)
    ELSE get_actions(bot)

\* The names load_domain reports for the collection.
DomainNames(coll, bot) ==
    IF coll = "Intents" THEN load_domain(bot).intents
    ELSE IF coll = "Entities" THEN load_domain(bot).entities
    ELSE load_domain(bot).actions

ListedCollections == {"Intents", "Entities", "Actions"}

\* The ids of every record of the bot in the collection, whatever its status.
RecordsOfBot(coll, bot) == {i \in DOMAIN db[coll] : db[coll][i].bot = bot}

\* C34: get_intents, get_entities and get_actions list every record of the
\* bot whatever its status, each once with its id and name, while load_domain
\* reports the names of the active records only: a record remove_document has
\* removed is still listed, and load_domain does not report its name unless
\* another, active record of the bot has it.
C34_ListsIgnoreStatus ==
    \A coll \in ListedCollections, b \in Bots :
        LET list == GetList(coll, b) IN
        /\ Len(list) = Cardinality(RecordsOfBot(coll, b))
        /\ {list[k]._id : k \in DOMAIN list} = RecordsOfBot(coll, b)
        /\ \A k \in DOMAIN list : list[k].value = db[coll][list[k]._id].name
        /\ \A k \in DOMAIN DomainNames(coll, b) :
                \E i \in RecordsOfBot(coll, b) :
                    db[coll][i].status /\ db[coll][i].name = DomainNames(coll, b)[k]
        /\ \A i \in RecordsOfBot(coll, b) :
                (\A j \in RecordsOfBot(coll, b) :
                    db[coll][j].name = db[coll][i].name => ~db[coll][j].status)
                => \A k \in DOMAIN DomainNames(coll, b) :
                        DomainNames(coll, b)[k] # db[coll][i].name

\* An intent was removed: get_intents still lists it and load_domain reports
\* no intent.
C34_Witness ==
    \E r \in removed : \E b \in Bots :
        /\ r[1] = "Intents"
        /\ db.Intents[r[2]].bot = b
        /\ \E k \in DOMAIN get_intents(b) : get_intents(b)[k]._id = r[2]
        /\ load_domain(b).intents = <<>>


====
